---------------------------- MODULE Spec2Model ----------------------------
(***************************************************************************)
(* AOI defect dashboard: the outcome classifier (aoi_classify.py), the     *)
(* loop collapser and the SQLite ingestor (ingest_to_db.py), the second    *)
(* classification script (aoi_defect_status.py), the issue tracker         *)
(* (pages/action_tracker.py), the filters of the dashboard (app.py) and    *)
(* the command-line entry points.                                          *)
(*                                                                         *)
(* Values.  On the pandas side a missing cell is NaN and a count is a      *)
(* plain integer.  On the SQLite side every cell is <<v>> or NULL = <<>>.  *)
(* A DataFrame is [cols |-> set of column names, rows |-> sequence of      *)
(* functions from cols to values]; the order of the columns is not         *)
(* modelled.  The defects table is a bag of rows (functions from dbcols to *)
(* cells); dbcols = {} means that the table does not exist yet.            *)
(***************************************************************************)
EXTENDS Integers, Sequences, FiniteSets, Bags, TLC

VARIABLES
    row,        \* classifier: the counts handed to classify
    outcome,    \* classifier: the label it returned ("unset" before the call)
    status3,    \* classifier: whether assign_outcome was called on the counts,
                \* and the rows it returned
    file,       \* ingestor: the raw sheet of the workbook last read
    df,         \* ingestor: the DataFrame process_file returned for it
    db,         \* ingestor: the defects table, a bag of rows
    dbcols,     \* ingestor: the columns of the defects table
    nread,      \* ingestor: raw rows read so far, over all runs
    history,    \* ingestor: the sheets upserted so far, one after the other
                \* (kept by SpecIngestHistory only)
    ing,        \* ingestor: where the loop iteration is: "idle", or
                \* "ensured" between the commit of ensure_table and that
                \* of upsert_df
    issues,     \* issue tracker: the rows of the issues table
    changelog,  \* issue tracker: the rows of issue_changelog, in id order
    seq,        \* issue tracker: the largest id AUTOINCREMENT has given out
    call,       \* issue tracker: the form submitted last, the dictionary it
                \* passed to save_issue, the row the edit form read, where
                \* the call is between its commits, what its SELECT read,
                \* the changelog rows it wrote and the id it returned
    loaded,     \* dashboard: the frame load_db returned
    session_state, \* dashboard: st.session_state of the session, the preset
                \* and the values of the date widgets kept from run to run
    view,       \* dashboard: how the run of the script ended, the selections
                \* of the filter widgets and the frame apply_filters_cached
                \* returned for them
    cli,        \* command line: the script run last, its input and how it
                \* ended
    cache,      \* the server process: what the cached loaders load_db,
                \* load_defects of the page and load_defects of the imported
                \* module hold (st.cache_data), and whether the module
                \* pages.action_tracker is imported
    got,        \* the frame a cached loader returned last
    pins,       \* pin-level deduplication: the frame handed to it and the
                \* frames it returned
    sess,       \* the sessions that run save_issue at the same time: where
                \* each one is and what it read
    run         \* the run of the ingestion loop under way, or the last one
                \* an exception ended: where it entered, its paths, how
                \* many it committed, where it is, where it stopped and
                \* the table it began on

vars ==
    <<row, outcome, status3, file, df, db, dbcols, nread, history, ing,
      issues, changelog, seq, call, loaded, session_state, view, cli,
      cache, got, pins, sess, run>>
classifyVars == <<row, outcome, status3>>
ingestVars == <<file, df, db, dbcols, nread, history, ing>>
issueVars == <<issues, changelog, seq, call>>
viewVars == <<loaded, session_state, view>>
cliVars == <<cli>>
cacheVars == <<cache, got>>
pinVars == <<pins>>
sessVars == <<sess>>
runVars == <<run>>

(***************************************************************************)
(* Bounds.                                                                 *)
(***************************************************************************)
\* Largest count of one disposition handed to classify on its own.
MaxCount == 4
\* Raw inspection rows read over one behaviour of the ingestor, all files
\* together; a file holds between one row and what is left of this budget.
MaxIngested == 3

(***************************************************************************)
(* The classifier: aoi_classify.py, classify.                              *)
(***************************************************************************)
DispositionCols == {"False call", "Overridden", "Reworkable"}

Labels == {"False", "Fixed from previously caught", "Suspect", "Real", "None"}

\* The four tests of classify, in the order of its if statements.
Cond1(r) == r["False call"] > 0
Cond2(r) == r["Reworkable"] = 0 /\ r["Overridden"] > 0
\* Mutants of Cond3: the test of the Real branch pasted in its place, and the
\* test on Overridden dropped.
Cond3_CopyPaste(r) == r["Reworkable"] > 0 /\ r["Overridden"] > 0
Cond3_NoOverriddenTest(r) == r["Reworkable"] > 0
Cond3(r) == r["Reworkable"] > 0 /\ r["Overridden"] = 0
\* Mutant of Cond4: one Overridden row is not enough.
Cond4_Strict(r) == r["Reworkable"] > 0 /\ r["Overridden"] > 1
Cond4(r) == r["Reworkable"] > 0 /\ r["Overridden"] > 0

\* Mutants of classify: the Fixed branch tested before the False branch, and
\* the 3-way rule (False, then Real on any Overridden row, then Suspect).
classify_FixedFirst(r) ==
    IF Cond2(r) THEN "Fixed from previously caught"
    ELSE IF Cond1(r) THEN "False"
    ELSE IF Cond3(r) THEN "Suspect"
    ELSE IF Cond4(r) THEN "Real"
    ELSE "None"
classify_ThreeWay(r) ==
    IF r["False call"] > 0 THEN "False"
    ELSE IF r["Overridden"] > 0 THEN "Real"
    ELSE IF r["Reworkable"] > 0 THEN "Suspect"
    ELSE "None"

classify(r) ==
    IF Cond1(r) THEN "False"
    ELSE IF Cond2(r) THEN "Fixed from previously caught"
    ELSE IF Cond3(r) THEN "Suspect"
    ELSE IF Cond4(r) THEN "Real"
    ELSE "None"

InitViewIdle ==
    /\ loaded = [cols |-> {}, rows |-> <<>>]
    /\ session_state = [preset_mode |-> "unset"]
    /\ view = [called |-> FALSE, n |-> 0]

NoEntry == [hit |-> FALSE, cols |-> {}, tbl |-> EmptyBag]
InitCacheIdle ==
    /\ cache = [load_db |-> NoEntry, load_defects |-> NoEntry,
                imported_load_defects |-> NoEntry, imported |-> FALSE]
    /\ got = [n |-> 0, loader |-> "none", cols |-> {}, tbl |-> EmptyBag]

InitPinsIdle == pins = [called |-> FALSE]

\* The sessions that edit the same issue, and a session between two calls.
Sessions == {1, 2}
Idle == [pc |-> "idle"]
\* No session has called save_issue.
InitSessIdle ==
    sess = [of |-> [s \in Sessions |-> Idle], calls |-> 0, last |-> <<>>, by |-> 0]

InitRunIdle ==
    run = [read |-> 0, entry |-> "none", paths |-> <<>>, done |-> 0, pc |-> "idle",
           stage |-> "none", partial |-> 0, tbl |-> EmptyBag, cols |-> {}]

InitCliIdle ==
    cli = [read |-> 0, script |-> "none", paths |-> <<>>, exit |-> "none",
           message |-> FALSE, opened |-> FALSE, written |-> FALSE, rows |-> <<>>]

\* No call of save_issue has been made, and none is under way.
NoCall ==
    [form |-> "none", inputs |-> <<>>, data |-> <<>>, clean_data |-> <<>>,
     full_issue |-> <<>>, existing |-> <<>>, k |-> 0, issue_id |-> 0,
     logged |-> {}, ret |-> 0, n |-> 0, pc |-> "idle"]

InitIssuesIdle ==
    /\ issues = {}
    /\ changelog = <<>>
    /\ seq = 0
    /\ call = NoCall

InitIngestIdle ==
    /\ file = <<>>
    /\ df = [cols |-> {}, rows |-> <<>>]
    /\ db = EmptyBag
    /\ dbcols = {}
    /\ nread = 0
    /\ history = <<>>
    /\ ing = "idle"

(***************************************************************************)
(* The second classification script: aoi_defect_status.py, assign_outcome. *)
(* A frame is [cols |-> column names, rows |-> sequence of rows].          *)
(***************************************************************************)
\* Mutant of np_select: the Suspect test made before the Real test.
np_select_SuspectFirst(r) ==
    IF r["False call"] > 0 THEN "False"
    ELSE IF r["Reworkable"] > 0 THEN "Suspect"
    ELSE IF r["Overridden"] > 0 THEN "Real"
    ELSE "None"
\* np.select([False call > 0, Overridden > 0, Reworkable > 0],
\*           ["False", "Real", "Suspect"], default="None") on one row: the
\* choice of the first condition that holds.
np_select(r) ==
    IF r["False call"] > 0 THEN "False"
    ELSE IF r["Overridden"] > 0 THEN "Real"
    ELSE IF r["Reworkable"] > 0 THEN "Suspect"
    ELSE "None"

\* tbl["Outcome"] = np.select(...); return tbl[tbl["Outcome"] != "None"]
assign_outcome(tbl) ==
    LET cols == tbl.cols \cup {"Outcome"}
        labelled == [n \in DOMAIN tbl.rows |->
                       [c \in cols |-> IF c = "Outcome" THEN np_select(tbl.rows[n])
                                       ELSE tbl.rows[n][c]]]
    IN  [cols |-> cols,
         rows |-> SelectSeq(labelled, LAMBDA r : r["Outcome"] # "None")]

InitClassify ==
    /\ row \in [DispositionCols -> 0..MaxCount]
    /\ outcome = "unset"
    /\ status3 = [called |-> FALSE, rows |-> <<>>]
    /\ InitIngestIdle
    /\ InitIssuesIdle
    /\ InitViewIdle
    /\ InitCliIdle
    /\ InitCacheIdle
    /\ InitPinsIdle
    /\ InitSessIdle
    /\ InitRunIdle

\* One call classify(row).
ClassifyRow ==
    /\ outcome = "unset"
    /\ outcome' = classify(row)
    /\ UNCHANGED <<row, status3, ingestVars, issueVars, viewVars, cliVars,
                   cacheVars, pinVars, sessVars, runVars>>

\* One call of assign_outcome on the table whose only row holds the counts.
AssignOutcome ==
    /\ ~status3.called
    /\ status3' =
        [called |-> TRUE,
         rows |-> assign_outcome([cols |-> DispositionCols, rows |-> <<row>>]).rows]
    /\ UNCHANGED <<row, outcome, ingestVars, issueVars, viewVars, cliVars,
                   cacheVars, pinVars, sessVars, runVars>>

NextClassify == ClassifyRow \/ AssignOutcome

SpecClassify == InitClassify /\ [][NextClassify]_vars

classified == outcome # "unset"
nFalse == row["False call"]
nOverridden == row["Overridden"]
nReworkable == row["Reworkable"]

\* C1: whenever classify was called with a False call count above 0 it
\* returned "False", whatever the Overridden and Reworkable counts.
C1_FalseCallWins == (classified /\ nFalse > 0) => outcome = "False"
C1_Witness ==
    classified /\ nFalse > 0 /\ nOverridden > 0 /\ nReworkable = 0
        /\ outcome = "False"

\* C2: called with no False call, at least one Overridden and no Reworkable
\* row, classify returned "Fixed from previously caught".
C2_Fixed ==
    (classified /\ nFalse = 0 /\ nOverridden > 0 /\ nReworkable = 0)
        => outcome = "Fixed from previously caught"
C2_Witness ==
    classified /\ nFalse = 0 /\ nOverridden > 1 /\ nReworkable = 0
        /\ outcome = "Fixed from previously caught"

\* C3: called with no False call, no Overridden and at least one Reworkable
\* row, classify returned "Suspect".
C3_Suspect ==
    (classified /\ nFalse = 0 /\ nOverridden = 0 /\ nReworkable > 0)
        => outcome = "Suspect"
C3_Witness ==
    classified /\ nFalse = 0 /\ nOverridden = 0 /\ nReworkable > 1
        /\ outcome = "Suspect"

\* C4: called with no False call, at least one Overridden and at least one
\* Reworkable row, classify returned "Real".
C4_Real ==
    (classified /\ nFalse = 0 /\ nOverridden > 0 /\ nReworkable > 0)
        => outcome = "Real"
C4_Witness ==
    classified /\ nFalse = 0 /\ nOverridden = 1 /\ nReworkable = 1
        /\ outcome = "Real"

\* The branches of classify once False call > 0 is tested first: branch 1 is its first
\* test, branches 2 to 4 are its next tests where the first one fails, and
\* branch 5, the fallback, is that none of the four tests holds.
Applies(i, r) ==
    CASE i = 1 -> Cond1(r)
      [] i = 2 -> ~Cond1(r) /\ Cond2(r)
      [] i = 3 -> ~Cond1(r) /\ Cond3(r)
      [] i = 4 -> ~Cond1(r) /\ Cond4(r)
      [] i = 5 -> ~(Cond1(r) \/ Cond2(r) \/ Cond3(r) \/ Cond4(r))
BranchLabel ==
    <<"False", "Fixed from previously caught", "Suspect", "Real", "None">>

\* C5: classify is total with mutually exclusive branches: for the counts it
\* was called with exactly one of the five branches applies, the tests of
\* branches 2, 3 and 4 are pairwise exclusive, and the label returned is the
\* label of the one branch that applies.
C5_TotalExclusive ==
    classified =>
        /\ outcome \in Labels
        /\ Cardinality({i \in 1..5 : Applies(i, row)}) = 1
        /\ \A i \in 1..5 : Applies(i, row) => outcome = BranchLabel[i]
        /\ ~(Cond2(row) /\ Cond3(row))
        /\ ~(Cond2(row) /\ Cond4(row))
        /\ ~(Cond3(row) /\ Cond4(row))
C5_Witness == classified /\ nFalse = 0 /\ nOverridden = 0 /\ nReworkable = 0 /\ outcome = "None"


(***************************************************************************)
(* The raw sheet of a workbook: the rows pd.read_excel returns.            *)
(***************************************************************************)
NaN == "nan"
NULL == <<>>

\* ingest_to_db.py, process_file: base_keys, and PRIMARY_KEY of the table.
base_keys == <<"SerialNumber", "Ref_Id", "DefectCode">>
PRIMARY_KEY == <<"SerialNumber", "Ref_Id", "DefectCode">>
KeyCols == {base_keys[i] : i \in DOMAIN base_keys}

\* The values a cell of the sheet takes.  Ref_Id may be missing; a
\* ReworkStatus outside the three dispositions is written "Other".
SerialNumbers == {"S1"}
RefIds == {"C1", NaN}
DefectCodes == {"D1"}
Statuses == DispositionCols \cup {"Other"}
Machines == {"M1", "M2"}

SheetCols == KeyCols \cup {"ReworkStatus", "MachineName"}

RawRows ==
    [SerialNumber : SerialNumbers, Ref_Id : RefIds, DefectCode : DefectCodes,
     ReworkStatus : Statuses, MachineName : Machines]

\* The sheets of between 1 and n rows.
Files(n) == UNION {[1..k -> RawRows] : k \in 1..n}

\* The strings of the key columns in ascending order; NaN sorts after all.
SortedStrings == <<"C1", "D1", "S1">>

Rank(v) ==
    IF v = NaN THEN Len(SortedStrings) + 1
    ELSE CHOOSE i \in DOMAIN SortedStrings : SortedStrings[i] = v

KeyOf(r) == <<r["SerialNumber"], r["Ref_Id"], r["DefectCode"]>>

\* Lexicographic order of two keys, as groupby(sort=True) orders its groups.
KeyLess(a, b) ==
    \E i \in 1..3 :
        /\ \A j \in 1..(i - 1) : a[j] = b[j]
        /\ Rank(a[i]) < Rank(b[i])

RECURSIVE SortKeys(_)
SortKeys(S) ==
    IF S = {} THEN <<>>
    ELSE LET m == CHOOSE k \in S : \A j \in S \ {k} : KeyLess(k, j)
         IN  <<m>> \o SortKeys(S \ {m})

\* groupby(base_keys, dropna=False): one group per distinct key, a missing
\* component being a key value like any other, in sorted order.
GroupKeys(sheet) == SortKeys({KeyOf(sheet[i]) : i \in DOMAIN sheet})

Min(S) == CHOOSE x \in S : \A y \in S : x <= y

(***************************************************************************)
(* ingest_to_db.py, process_file.                                          *)
(***************************************************************************)
skip_cols == KeyCols \cup {"ReworkStatus"}
meta_cols == SheetCols \ skip_cols

\* GroupBy.first(): the first value of the column in the group that is not
\* missing, NaN when every value is.
First(sheet, k, c) ==
    LET idx == {i \in DOMAIN sheet : KeyOf(sheet[i]) = k /\ sheet[i][c] # NaN}
    IN  IF idx = {} THEN NaN ELSE sheet[Min(idx)][c]

KeyCell(k, c) == k[CHOOSE i \in DOMAIN base_keys : base_keys[i] = c]

\* Mutant of meta: the metadata columns taken from the sheet without the
\* groupby, one row per raw row.
meta_NoGroupBy(sheet) ==
    [cols |-> KeyCols \cup meta_cols,
     rows |-> [n \in DOMAIN sheet |-> [c \in KeyCols \cup meta_cols |-> sheet[n][c]]]]
\* meta = df.groupby(base_keys, dropna=False)[meta_cols].first().reset_index()
meta(sheet) ==
    LET ks == GroupKeys(sheet)
    IN  [cols |-> KeyCols \cup meta_cols,
         rows |-> [n \in DOMAIN ks |->
                     [c \in KeyCols \cup meta_cols |->
                         IF c \in KeyCols THEN KeyCell(ks[n], c)
                         ELSE First(sheet, ks[n], c)]]]

\* Mutant of size: the distinct rows of the group counted (nunique).
size_Distinct(sheet, k, s) ==
    Cardinality({sheet[i] : i \in {j \in DOMAIN sheet :
                    KeyOf(sheet[j]) = k /\ sheet[j]["ReworkStatus"] = s}})
\* GroupBy.size() of the group (key, status): its number of rows.
size(sheet, k, s) ==
    Cardinality({i \in DOMAIN sheet :
                    KeyOf(sheet[i]) = k /\ sheet[i]["ReworkStatus"] = s})

\* df.groupby(base_keys + ["ReworkStatus"], dropna=False).size()
\*   .unstack(fill_value=0).reset_index():
\* one row per key, one column per status that occurs in the sheet, holding
\* the size of the group or fill_value where the sheet has no such group.
unstack(sheet) ==
    LET ks == GroupKeys(sheet)
        statusCols == {sheet[i]["ReworkStatus"] : i \in DOMAIN sheet}
        groups == {<<KeyOf(sheet[i]), sheet[i]["ReworkStatus"]>> : i \in DOMAIN sheet}
    IN  [cols |-> KeyCols \cup statusCols,
         rows |-> [n \in DOMAIN ks |->
                     [c \in KeyCols \cup statusCols |->
                         IF c \in KeyCols THEN KeyCell(ks[n], c)
                         ELSE IF <<ks[n], c>> \in groups THEN size(sheet, ks[n], c)
                         ELSE 0]]]

\* grp[col] = values: a column added to, or overwritten in, the frame, its
\* n-th row holding values[n].
SetColumn(frame, col, values) ==
    [cols |-> frame.cols \cup {col},
     rows |-> [n \in DOMAIN frame.rows |->
                 [c \in frame.cols \cup {col} |->
                     IF c = col THEN values[n] ELSE frame.rows[n][c]]]]

\* The scalar 0 broadcast to the rows of the frame.
Zeros(frame) == [n \in DOMAIN frame.rows |-> 0]

\* grp.apply(classify, axis=1)
ApplyClassify(frame) == [n \in DOMAIN frame.rows |-> classify(frame.rows[n])]

\* Mutant of EnsureColumn: the test "if col not in grp" left out.
EnsureColumn_Overwrite(frame, col) == SetColumn(frame, col, Zeros(frame))
\* for col in [...]: if col not in grp: grp[col] = 0
EnsureColumn(frame, col) ==
    IF col \notin frame.cols THEN SetColumn(frame, col, Zeros(frame)) ELSE frame

\* The collapsed counts: unstack, then the three disposition columns ensured.
CollapseLoops(sheet) ==
    EnsureColumn(EnsureColumn(EnsureColumn(unstack(sheet),
        "False call"), "Overridden"), "Reworkable")

RECURSIVE Flatten(_)
Flatten(ss) == IF ss = <<>> THEN <<>> ELSE Head(ss) \o Flatten(Tail(ss))

\* The filter of process_file, mutated: every row is kept.
IsKept_All(r) == TRUE
\* grp[grp["Outcome"] != "None"]
IsKept(r) == r["Outcome"] # "None"

\* left.merge(right, on=base_keys, how="left"): every left row, in order, once
\* per right row with the same key (a missing component matches a missing
\* one), or once with NaN in the right columns when no right row matches.
Merge(left, right) ==
    LET cols == left.cols \cup right.cols
        Joined(l, r) == [c \in cols |-> IF c \in left.cols THEN l[c] ELSE r[c]]
        Alone(l) == [c \in cols |-> IF c \in left.cols THEN l[c] ELSE NaN]
        Matches(l) == SelectSeq(right.rows, LAMBDA r : KeyOf(r) = KeyOf(l))
        Out(l) == IF Matches(l) = <<>> THEN <<Alone(l)>>
                  ELSE [m \in DOMAIN Matches(l) |-> Joined(l, Matches(l)[m])]
    IN  [cols |-> cols,
         rows |-> Flatten([n \in DOMAIN left.rows |-> Out(left.rows[n])])]

process_file(sheet) ==
    LET counts == CollapseLoops(sheet)
        grp == SetColumn(counts, "Outcome", ApplyClassify(counts))
        kept == [cols |-> grp.cols, rows |-> SelectSeq(grp.rows, IsKept)]
    IN  Merge(kept, meta(sheet))

(***************************************************************************)
(* ingest_to_db.py, ensure_table and upsert_df.                            *)
(***************************************************************************)
\* What sqlite3 binds for a value of df.values.tolist(): NULL for NaN.  Only
\* a column of dtype object holds NaN here; the counts are numbers (stored
\* in a REAL column with the same numeric value).
ToSql(c, v) == IF c \notin Statuses /\ v = NaN THEN NULL ELSE <<v>>

\* The table with the columns cols: every row keeps its cells and holds NULL
\* in a column it did not have (ALTER TABLE ... ADD COLUMN).
AddColumns(tbl, oldcols, cols) ==
    LET Ext(x) == [c \in cols |-> IF c \in oldcols THEN x[c] ELSE NULL]
    IN  [y \in {Ext(x) : x \in DOMAIN tbl} |-> tbl[[c \in oldcols |-> y[c]]]]

\* ensure_table: CREATE TABLE IF NOT EXISTS with the key columns and the
\* frame's columns, then one ADD COLUMN per column of the frame the table
\* lacks.  Returns the table and its columns.
ensure_table(tbl, cols, frame) ==
    LET created == IF cols = {} THEN KeyCols \cup frame.cols ELSE cols
        all == created \cup frame.cols
    IN  [cols |-> all, tbl |-> AddColumns(tbl, created, all)]

\* The conflicting rows, mutated: the key is the SerialNumber alone.
Conflicts_BySerial(tbl, new) ==
    {x \in DOMAIN tbl : new["SerialNumber"] # NULL
                         /\ x["SerialNumber"] = new["SerialNumber"]}

\* The rows the new row conflicts with under PRIMARY KEY (SerialNumber,
\* Ref_Id, DefectCode) of a rowid table: NULL is distinct from every value,
\* NULL included, so a row with a NULL key component conflicts with none.
Conflicts(tbl, new) ==
    {x \in DOMAIN tbl : \A k \in KeyCols : new[k] # NULL /\ x[k] = new[k]}

\* INSERT OR REPLACE, mutated: a row that replaces another keeps the Outcome
\* of the row it replaces.
InsertOrReplace_KeepOutcome(tbl, cols, frame, r) ==
    LET new == [c \in cols |-> IF c \in frame.cols THEN ToSql(c, r[c]) ELSE NULL]
        old == Conflicts(tbl, new)
        kept == IF old = {} THEN new
                ELSE [new EXCEPT !["Outcome"] = (CHOOSE x \in old : TRUE)["Outcome"]]
        rest == [x \in (DOMAIN tbl) \ old |-> tbl[x]]
    IN  rest (+) SetToBag({kept})

\* INSERT OR REPLACE of one row of the frame: the conflicting rows are
\* deleted, the row is inserted, a column the frame lacks holding NULL.
InsertOrReplace(tbl, cols, frame, r) ==
    LET new == [c \in cols |-> IF c \in frame.cols THEN ToSql(c, r[c]) ELSE NULL]
        rest == [x \in (DOMAIN tbl) \ Conflicts(tbl, new) |-> tbl[x]]
    IN  rest (+) SetToBag({new})

\* conn.executemany(sql, df.values.tolist()): the rows in order.
RECURSIVE executemany(_, _, _, _)
executemany(tbl, cols, frame, n) ==
    IF n > Len(frame.rows) THEN tbl
    ELSE executemany(InsertOrReplace(tbl, cols, frame, frame.rows[n]),
                     cols, frame, n + 1)

upsert_df(tbl, cols, frame) == executemany(tbl, cols, frame, 1)

(***************************************************************************)
(* ingest_to_db.py, main: one iteration of its loop over the paths, on a   *)
(* workbook whose sheet is f.  The iteration commits twice, at the end of  *)
(* ensure_table and at the end of upsert_df, and every other connection    *)
(* reads the table in between: it is two steps.                            *)
(***************************************************************************)
InitIngest ==
    /\ row = [c \in DispositionCols |-> 0]
    /\ outcome = "unset"
    /\ status3 = [called |-> FALSE, rows |-> <<>>]
    /\ InitIngestIdle
    /\ InitIssuesIdle
    /\ InitViewIdle
    /\ InitCliIdle
    /\ InitCacheIdle
    /\ InitPinsIdle
    /\ InitSessIdle
    /\ InitRunIdle

\* process_file and ensure_table on the workbook whose sheet is f, up to
\* the conn.commit() that ends ensure_table (line 95): the table exists
\* with the frame's columns and holds no row of the frame yet.
EnsureTable(f) ==
    LET frame == process_file(f)
        ens == ensure_table(db, dbcols, frame)
    IN  /\ ing = "idle"
        /\ nread + Len(f) <= MaxIngested
        /\ file' = f
        /\ df' = frame
        /\ dbcols' = ens.cols
        /\ db' = ens.tbl
        /\ nread' = nread + Len(f)
        /\ ing' = "ensured"
        /\ UNCHANGED <<history, classifyVars, issueVars, viewVars, cliVars,
                       cacheVars, pinVars, sessVars, runVars>>

\* upsert_df on the frame, up to its conn.commit() (line 104).
UpsertStep ==
    /\ ing = "ensured"
    /\ db' = upsert_df(db, dbcols, df)
    /\ ing' = "idle"
    /\ UNCHANGED <<file, df, dbcols, nread, classifyVars, issueVars, viewVars,
                   cliVars, cacheVars, pinVars, sessVars, runVars>>

UpsertDf == UpsertStep /\ UNCHANGED history

NextIngest ==
    \/ \E f \in Files(MaxIngested - nread) : EnsureTable(f)
    \/ UpsertDf

SpecIngest == InitIngest /\ [][NextIngest]_vars

\* The same loop, the sheets upserted being recorded in history.
UpsertDfRecorded == UpsertStep /\ history' = Append(history, file)

NextIngestHistory ==
    \/ \E f \in Files(MaxIngested - nread) : EnsureTable(f)
    \/ UpsertDfRecorded

SpecIngestHistory == InitIngest /\ [][NextIngestHistory]_vars

\* The step is the commit of upsert_df.
Upserts == ing = "ensured" /\ ing' = "idle"

ingested == nread > 0
collapsed == CollapseLoops(file).rows
Positive(r) == r["False call"] > 0 \/ r["Overridden"] > 0 \/ r["Reworkable"] > 0

\* The raw rows of the sheet with key k and ReworkStatus s, counted one row
\* after the other.
RECURSIVE Occurrences(_, _, _)
Occurrences(sheet, k, s) ==
    IF sheet = <<>> THEN 0
    ELSE (IF KeyOf(Head(sheet)) = k /\ Head(sheet)["ReworkStatus"] = s THEN 1 ELSE 0)
         + Occurrences(Tail(sheet), k, s)

FileKeys == {KeyOf(file[i]) : i \in DOMAIN file}
HasDisposition(k) ==
    \E i \in DOMAIN file :
        KeyOf(file[i]) = k /\ file[i]["ReworkStatus"] \in DispositionCols
DfRowsOf(k) == {n \in DOMAIN df.rows : KeyOf(df.rows[n]) = k}

\* C6 as claimed: for any sheet read, every aggregated row of the collapser
\* has a count above 0 among False call, Overridden and Reworkable, so
\* classify returns "None" for none of them.
C6_NeverAllZero ==
    \A n \in DOMAIN collapsed :
        Positive(collapsed[n]) /\ classify(collapsed[n]) # "None"

\* C6 as amended: an aggregated row has a count above 0, and is not
\* classified "None", exactly when its key has a raw row whose ReworkStatus
\* is one of the three dispositions; the rows process_file returns are the
\* rows of those keys.
C6_PositiveIffDisposition ==
    /\ LET c == collapsed
       IN \A n \in DOMAIN c :
            /\ Positive(c[n]) <=> HasDisposition(KeyOf(c[n]))
            /\ classify(c[n]) # "None" <=> HasDisposition(KeyOf(c[n]))
    /\ \A k \in FileKeys : HasDisposition(k) <=> DfRowsOf(k) # {}
C6_Witness ==
    /\ ingested
    /\ \E k \in FileKeys : HasDisposition(k) /\ DfRowsOf(k) # {}
    /\ \E k \in FileKeys : ~HasDisposition(k) /\ DfRowsOf(k) = {}

\* C7: ingesting the sheet that was ingested last leaves the defects table
\* with the same rows and the same number of rows (ensure_table adds no
\* column for it, so the table the upsert starts from is the table as the
\* last ingestion left it).
C7_ReingestIdempotent ==
    [][(Upserts /\ history # <<>> /\ history[Len(history)] = file)
          => (BagToSet(db') = BagToSet(db)
              /\ BagCardinality(db') = BagCardinality(db))]_vars

\* C8: no two rows of the defects table have the same SerialNumber, Ref_Id
\* and DefectCode, a missing component counting as a value.
C8_KeyUniqueInTable ==
    \A x \in DOMAIN db :
        /\ db[x] = 1
        /\ \A y \in DOMAIN db : (\A k \in KeyCols : x[k] = y[k]) => x = y

\* C9: the frame process_file returns holds exactly one row for every key of
\* the sheet that is kept, and no other row.
C9_OneRowPerKey ==
    /\ \A k \in FileKeys :
        Cardinality(DfRowsOf(k)) = (IF HasDisposition(k) THEN 1 ELSE 0)
    /\ \A n \in DOMAIN df.rows : KeyOf(df.rows[n]) \in FileKeys
    /\ \A m, n \in DOMAIN df.rows :
        KeyOf(df.rows[m]) = KeyOf(df.rows[n]) => m = n
C9_Witness ==
    /\ Len(file) = 3
    /\ Len(df.rows) = 2
    /\ \E n \in DOMAIN df.rows : df.rows[n]["Ref_Id"] = NaN
    /\ \E m, n \in DOMAIN file :
        m # n /\ KeyOf(file[m]) = KeyOf(file[n])
              /\ file[m]["MachineName"] # file[n]["MachineName"]

\* C10: in every aggregated row, of the collapser and of process_file, the
\* count of each disposition is the number of raw rows of the sheet with the
\* row's key and that ReworkStatus, and every key of the sheet is aggregated.
C10_CountsOccurrences ==
    LET c == collapsed
    IN /\ \A n \in DOMAIN c : \A d \in DispositionCols :
            c[n][d] = Occurrences(file, KeyOf(c[n]), d)
       /\ \A n \in DOMAIN df.rows : \A d \in DispositionCols :
            df.rows[n][d] = Occurrences(file, KeyOf(df.rows[n]), d)
       /\ \A k \in FileKeys : \E n \in DOMAIN c : KeyOf(c[n]) = k
C10_Witness ==
    /\ ingested
    /\ \E n \in DOMAIN df.rows :
        /\ df.rows[n]["Overridden"] = 2
        /\ df.rows[n]["Reworkable"] = 0
        /\ \A i \in DOMAIN file : file[i]["ReworkStatus"] # "Reworkable"
        /\ \E i, j \in DOMAIN file : i # j /\ file[i] = file[j]

\* The key of a row of the defects table whose key is complete, as the key
\* of the raw rows it was aggregated from.
TableKeyOf(x) == <<x["SerialNumber"][1], x["Ref_Id"][1], x["DefectCode"][1]>>
CompleteKey(x) == \A k \in KeyCols : x[k] # NULL

\* The defects table after main has ingested the sheets of hs in order,
\* starting from the table t with the columns cols.
RECURSIVE Replay(_, _, _)
Replay(hs, t, cols) ==
    IF hs = <<>> THEN t
    ELSE LET frame == process_file(Head(hs))
             ens == ensure_table(t, cols, frame)
         IN  Replay(Tail(hs), upsert_df(ens.tbl, ens.cols, frame), ens.cols)

Reverse(hs) == [n \in DOMAIN hs |-> hs[Len(hs) + 1 - n]]

\* The key, the disposition counts and the Outcome of the rows of the table
\* whose key is complete.
StoredCounts(t) ==
    {[c \in KeyCols \cup DispositionCols \cup {"Outcome"} |-> x[c]] :
        x \in {y \in DOMAIN t : CompleteKey(y)}}

\* C11: every row of the defects table with a complete key stores, for each
\* disposition, a count that includes the raw rows with its key and that
\* ReworkStatus of every sheet ingested so far, and the keys, counts and
\* Outcomes stored are those the same sheets ingested in the opposite order
\* give.
C11_CountsAccountForAllFiles ==
    /\ \A x \in DOMAIN db :
        CompleteKey(x) =>
            \A n \in DOMAIN history : \A d \in DispositionCols :
                x[d][1] >= Occurrences(history[n], TableKeyOf(x), d)
    /\ StoredCounts(db) = StoredCounts(Replay(Reverse(history), EmptyBag, {}))

\* The label assign_outcome gave the counts: the Outcome of the row it
\* returned, "None" when it dropped the row.
label3 == IF status3.rows = <<>> THEN "None" ELSE status3.rows[1]["Outcome"]

\* C12: assign_outcome labels the counts "False" when False call > 0,
\* otherwise "Real" when Overridden > 0, otherwise "Suspect" when
\* Reworkable > 0, drops the all-zero row, and never gives a "Fixed" label.
C12_ThreeWayRule ==
    status3.called =>
        /\ nFalse > 0 => label3 = "False"
        /\ (nFalse = 0 /\ nOverridden > 0) => label3 = "Real"
        /\ (nFalse = 0 /\ nOverridden = 0 /\ nReworkable > 0) => label3 = "Suspect"
        /\ (nFalse = 0 /\ nOverridden = 0 /\ nReworkable = 0) => status3.rows = <<>>
        /\ label3 # "Fixed from previously caught"
        /\ Len(status3.rows) <= 1
C12_Witness ==
    status3.called /\ nFalse = 0 /\ nOverridden > 0 /\ nReworkable > 0
        /\ label3 = "Real"

\* C13: classify and assign_outcome give the same counts different labels
\* exactly when there is no False call, at least one Overridden and no
\* Reworkable row, and then the labels are "Fixed from previously caught"
\* and "Real".
C13_DivergeOnFixedOnly ==
    (classified /\ status3.called) =>
        /\ outcome # label3 <=> (nFalse = 0 /\ nOverridden > 0 /\ nReworkable = 0)
        /\ outcome # label3 =>
            (outcome = "Fixed from previously caught" /\ label3 = "Real")
C13_Witness ==
    classified /\ status3.called /\ outcome # label3
        /\ nFalse = 0 /\ nOverridden > 0 /\ nReworkable = 0

(***************************************************************************)
(* The issue tracker: pages/action_tracker.py.  Of the columns of the      *)
(* issues table the model keeps id, one TEXT column the forms fill from a  *)
(* text input (line_name), one INTEGER column they fill from a checkbox    *)
(* (rca_completed) and one column no form fills any more (shift).  A row   *)
(* of issues is a function from IssueCols to values; a text is a string,   *)
(* None (SQL NULL read back by Python) is the string NoneValue, which no   *)
(* text input can hold, and a number is an integer.  The timestamps        *)
(* (created_at, updated_at, changed_at) are not modelled.                  *)
(***************************************************************************)
\* The number of forms submitted in one behaviour.
MaxSaves == 3

NoneValue == "<None>"
IssueCols == {"id", "line_name", "rca_completed", "shift"}
IntCols == {"id", "rca_completed"}
\* The keys of the dictionaries the two forms build, in the order in which
\* the forms insert them.
FormFields == <<"line_name", "rca_completed">>
\* What a text input can return.
TextInputs == {"", " ", "A", "B"}
\* The forms the user can fill: the text of line_name and the state of the
\* "RCA completed" checkbox.
FormInputs == [line_name : TextInputs, rca_completed : BOOLEAN]

\* str(n) of a small natural number.
Digits == <<"0", "1", "2", "3", "4", "5", "6", "7", "8", "9">>
IntStr(n) == IF n < 10 THEN Digits[n + 1] ELSE Digits[(n \div 10) + 1] \o Digits[(n % 10) + 1]
\* str(v) of the value v of column c.
str(c, v) ==
    IF c \in IntCols THEN IntStr(v)
    ELSE IF v = NoneValue THEN "None" ELSE v
\* int(b) of a bool.
int(b) == IF b THEN 1 ELSE 0
\* s.strip() of the texts a text input returns.
strip(s) == IF s = " " THEN "" ELSE s

\* The rows of issues whose id is i.
IssuesOf(tbl, i) == {x \in tbl : x["id"] = i}
IssueIds(tbl) == {x["id"] : x \in tbl}
\* The rows of issue_changelog about issue i and field c.
EntriesOf(log, i, c) ==
    {n \in DOMAIN log : log[n].issue_id = i /\ log[n].field_name = c}

\* log_change, mutated: the new row takes the place of the last one.
log_change_Overwrite(log, issue_id, field_name, old_value, new_value, changed_by) ==
    SubSeq(log, 1, Len(log) - 1) \o
        <<[issue_id |-> issue_id, field_name |-> field_name,
           old_value |-> str(field_name, old_value),
           new_value |-> str(field_name, new_value),
           changed_by |-> changed_by]>>

\* log_change: one INSERT into issue_changelog and a commit.
log_change(log, issue_id, field_name, old_value, new_value, changed_by) ==
    Append(log, [issue_id |-> issue_id, field_name |-> field_name,
                 old_value |-> str(field_name, old_value),
                 new_value |-> str(field_name, new_value),
                 changed_by |-> changed_by])

\* save_issue, lines 225-230: None becomes "", a number stays, anything
\* else becomes its str.
clean(data) ==
    [k \in DOMAIN data |->
        IF k \in IntCols THEN data[k]
        ELSE IF data[k] = NoneValue THEN "" ELSE data[k]]

\* save_issue, mutated: a field is logged whether or not it changed.
Changed_Always(existing, clean_data, key) == TRUE
\* save_issue, line 250: str(old_value) != str(new_value).
Changed(existing, clean_data, key) ==
    str(key, existing[key]) # str(key, clean_data[key])

\* What fetchone() returns when the SELECT of line 238 finds no row: None,
\* a value that holds no column.
NoRow == [c \in {} |-> NoneValue]

\* The SELECT, mutated: an id that matches no issue reads as a row of
\* defaults.
existing_dict_Default(tbl, issue_id) ==
    IF IssuesOf(tbl, issue_id) = {}
    THEN [c \in IssueCols |->
            IF c = "id" THEN issue_id ELSE IF c \in IntCols THEN 0 ELSE NoneValue]
    ELSE CHOOSE x \in IssuesOf(tbl, issue_id) : TRUE
\* save_issue, lines 238-244: the row the SELECT returns, None when the id
\* matches no issue.
existing_dict(tbl, issue_id) ==
    IF IssuesOf(tbl, issue_id) = {} THEN NoRow
    ELSE CHOOSE x \in IssuesOf(tbl, issue_id) : TRUE

\* save_issue, lines 241-251: the position in the dictionary of the next
\* field, from the n-th on, whose change the loop logs; 0 when none is
\* left, and when the SELECT returned no row (the loop is not entered).
NextChanged(existing, clean_data, n) ==
    LET ks == {k \in n..Len(FormFields) :
                  /\ DOMAIN existing # {}
                  /\ FormFields[k] \in DOMAIN clean_data
                  /\ FormFields[k] \in DOMAIN existing
                  /\ Changed(existing, clean_data, FormFields[k])}
    IN  IF ks = {} THEN 0 ELSE CHOOSE k \in ks : \A j \in ks : k <= j

\* save_issue, lines 254-259: UPDATE issues SET ... WHERE id = ?.
Update(tbl, issue_id, clean_data) ==
    {IF x["id"] = issue_id
        THEN [c \in IssueCols |->
                IF c \in DOMAIN clean_data \ {"id"} THEN clean_data[c] ELSE x[c]]
        ELSE x : x \in tbl}

\* The id of the next row, mutated: always the first id.
NextId_First(tbl, s) == 1
\* The id AUTOINCREMENT gives the next row: one more than the largest id
\* given out so far.
NextId(tbl, s) == s + 1

\* The row an INSERT of clean_data makes: a column the dictionary does not
\* name takes its default, NULL for shift.
NewRow(clean_data, issue_id) ==
    [c \in IssueCols |->
        IF c = "id" THEN issue_id
        ELSE IF c \in DOMAIN clean_data THEN clean_data[c]
        ELSE IF c \in IntCols THEN 0 ELSE NoneValue]

\* The edit form, lines 863-864: a blank text keeps the stored value.
keep(original, new) ==
    IF strip(str("line_name", new)) # "" THEN new ELSE original

\* The dictionary the new-issue form passes to save_issue, lines 630-655.
issue_data(inp) ==
    [line_name |-> inp.line_name, rca_completed |-> int(inp.rca_completed)]
\* The dictionary the edit form of issue i passes to save_issue, lines
\* 866-892; full_issue is the row of i read when the script runs.
update_data(full_issue, inp) ==
    [id |-> full_issue["id"],
     line_name |-> keep(full_issue["line_name"], inp.line_name),
     rca_completed |-> int(inp.rca_completed)]

InitIssues ==
    /\ row = [c \in DispositionCols |-> 0]
    /\ outcome = "unset"
    /\ status3 = [called |-> FALSE, rows |-> <<>>]
    /\ InitIngestIdle
    /\ issues = {}
    /\ changelog = <<>>
    /\ seq = 0
    /\ call = NoCall
    /\ InitViewIdle
    /\ InitCliIdle
    /\ InitCacheIdle
    /\ InitPinsIdle
    /\ InitSessIdle
    /\ InitRunIdle

(***************************************************************************)
(* One call of save_issue is several steps, one per commit: other          *)
(* connections read and write the tables between them.  Without an id:     *)
(* the INSERT and its commit (lines 263-274), then the creation row of     *)
(* log_change and its commit (277, 217).  With an id: the SELECT (238),    *)
(* one log_change and commit per changed field (247-251, 217), then the    *)
(* UPDATE and its commit (254-259).  The edit form reads the row of the    *)
(* issue on a connection of its own (785-786) before it calls save_issue   *)
(* (894-896).  A form makes one call at a time; the script of another      *)
(* session runs in a thread of its own.                                    *)
(***************************************************************************)
\* The calls of save_issue begun so far, by the forms and by the other
\* session.
Calls ==
    call.n + sess.calls + IF call.pc \in {"inserted", "selected"} THEN 1 ELSE 0

\* save_issue is called with data: the dictionary is cleaned; without an
\* id the row is inserted and committed, with one the row is selected.
\* logged is the set of rows of issue_changelog the call has written.
BeginSave(form, inp, data) ==
    LET clean_data == clean(data)
    IN /\ Calls < MaxSaves
       /\ IF "id" \in DOMAIN clean_data /\ clean_data["id"] # 0
          THEN /\ call' = [form |-> form, inputs |-> inp, data |-> data,
                           clean_data |-> clean_data,
                           full_issue |-> call.full_issue,
                           existing |-> existing_dict(issues, clean_data["id"]),
                           k |-> 1, issue_id |-> clean_data["id"],
                           logged |-> {}, ret |-> 0,
                           n |-> call.n, pc |-> "selected"]
               /\ UNCHANGED <<issues, seq>>
          ELSE LET issue_id == NextId(issues, seq)
               IN /\ issues' = issues \cup {NewRow(clean_data, issue_id)}
                  /\ seq' = issue_id
                  /\ call' = [form |-> form, inputs |-> inp, data |-> data,
                              clean_data |-> clean_data,
                              full_issue |-> call.full_issue, existing |-> NoRow,
                              k |-> 0, issue_id |-> issue_id,
                              logged |-> {}, ret |-> 0,
                              n |-> call.n, pc |-> "inserted"]
       /\ UNCHANGED <<changelog, classifyVars, ingestVars, viewVars, cliVars,
                      cacheVars, pinVars, sessVars, runVars>>

\* The row is inserted: log_change writes and commits the creation row, and
\* save_issue returns the id.
LogCreation ==
    /\ call.pc = "inserted"
    /\ changelog' = log_change(changelog, call.issue_id, "status", "",
                               "Created", "System")
    /\ call' = [call EXCEPT !.pc = "idle", !.ret = call.issue_id,
                            !.logged = {Len(changelog')}, !.n = call.n + 1]
    /\ UNCHANGED <<issues, seq, classifyVars, ingestVars, viewVars, cliVars,
                   cacheVars, pinVars, sessVars, runVars>>

\* The loop reaches the next changed field: log_change writes and commits
\* its row.
LogField ==
    /\ call.pc = "selected"
    /\ LET k == NextChanged(call.existing, call.clean_data, call.k)
           key == FormFields[k]
       IN  /\ k # 0
           /\ changelog' = log_change(changelog, call.issue_id, key,
                                      call.existing[key], call.clean_data[key],
                                      "System")
           /\ call' = [call EXCEPT !.k = k + 1,
                                   !.logged = call.logged \cup {Len(changelog')}]
    /\ UNCHANGED <<issues, seq, classifyVars, ingestVars, viewVars, cliVars,
                   cacheVars, pinVars, sessVars, runVars>>

\* The loop has ended, or was not entered: UPDATE, commit, return the id.
UpdateIssue ==
    /\ call.pc = "selected"
    /\ NextChanged(call.existing, call.clean_data, call.k) = 0
    /\ issues' = Update(issues, call.issue_id, call.clean_data)
    /\ call' = [call EXCEPT !.pc = "idle", !.ret = call.issue_id,
                            !.n = call.n + 1]
    /\ UNCHANGED <<changelog, seq, classifyVars, ingestVars, viewVars, cliVars,
                   cacheVars, pinVars, sessVars, runVars>>

\* The user submits the new-issue form.
SubmitNewIssue(inp) ==
    /\ call.pc = "idle"
    /\ BeginSave("new", inp, issue_data(inp))

\* The script runs with the edit form of the issue i submitted: the row of
\* the issue is read, lines 785-786, and the connection closed.
ReadIssue(i) ==
    /\ call.pc = "idle"
    /\ Calls < MaxSaves
    /\ IssuesOf(issues, i) # {}
    /\ call' = [call EXCEPT !.pc = "read",
                            !.full_issue = CHOOSE x \in IssuesOf(issues, i) : TRUE]
    /\ UNCHANGED <<issues, changelog, seq, classifyVars, ingestVars, viewVars,
                   cliVars, cacheVars, pinVars, sessVars, runVars>>

\* The script goes on with the inputs of the form: update_data is built
\* from the row read and save_issue is called on a new connection.
SubmitEditIssue(inp) ==
    /\ call.pc = "read"
    /\ BeginSave("edit", inp, update_data(call.full_issue, inp))

(***************************************************************************)
(* Two sessions of the Action Tracker update the same issue.  Each runs    *)
(* save_issue on a connection of its own; the statements of one call are   *)
(* the SELECT of line 238, one log_change (INSERT and commit) per changed  *)
(* field in the order of the dictionary, and the UPDATE and commit of      *)
(* lines 254-259.  Nothing keeps the statements of two calls apart.        *)
(***************************************************************************)
\* The number of calls of save_issue the sessions of one behaviour make.
MaxUpdates == 3

\* The issue both sessions edit: the first one created.
SharedIssue == 1
\* The dictionaries an edit of the issue passes.
SessionData ==
    [id : {SharedIssue}, line_name : {"A", "B"}, rca_completed : {0, 1}]

\* The issue exists: the new-issue form has created it.
InitSessions ==
    LET clean_data == clean(issue_data([line_name |-> "A", rca_completed |-> FALSE]))
        r == [issues |-> {NewRow(clean_data, SharedIssue)},
              changelog |-> log_change(<<>>, SharedIssue, "status", "", "Created", "System"),
              seq |-> SharedIssue]
    IN  /\ row = [c \in DispositionCols |-> 0]
        /\ outcome = "unset"
        /\ status3 = [called |-> FALSE, rows |-> <<>>]
        /\ InitIngestIdle
        /\ issues = r.issues
        /\ changelog = r.changelog
        /\ seq = r.seq
        /\ call = NoCall
        /\ InitViewIdle
        /\ InitCliIdle
        /\ InitCacheIdle
        /\ InitPinsIdle
        /\ InitRunIdle
        /\ InitSessIdle

\* Session s calls save_issue(conn, data): the dictionary is cleaned and
\* the SELECT reads the row.
Select(s, data) ==
    /\ sess.of[s].pc = "idle"
    /\ sess.calls < MaxUpdates
    /\ sess' = [sess EXCEPT
                  !.of[s] = [pc |-> "selected", clean_data |-> clean(data),
                             existing |-> existing_dict(issues, data["id"]),
                             n |-> 1, logged |-> {}],
                  !.calls = sess.calls + 1]
    /\ UNCHANGED <<issues, changelog, seq, call, classifyVars, ingestVars,
                   viewVars, cliVars, cacheVars, pinVars, runVars>>

\* The loop of session s reaches the next changed field and logs it.
LogOne(s) ==
    /\ sess.of[s].pc = "selected"
    /\ LET me == sess.of[s]
           k == NextChanged(me.existing, me.clean_data, me.n)
           key == FormFields[k]
       IN  /\ k # 0
           /\ changelog' = log_change(changelog, me.clean_data["id"], key,
                                      me.existing[key], me.clean_data[key], "System")
           /\ sess' = [sess EXCEPT !.of[s].n = k + 1,
                                   !.of[s].logged = me.logged \cup {Len(changelog')}]
    /\ UNCHANGED <<issues, seq, call, classifyVars, ingestVars,
                   viewVars, cliVars, cacheVars, pinVars, runVars>>

\* The loop of session s has ended: UPDATE, commit, return.
UpdateRow(s) ==
    /\ sess.of[s].pc = "selected"
    /\ LET me == sess.of[s]
       IN  /\ NextChanged(me.existing, me.clean_data, me.n) = 0
           /\ issues' = Update(issues, me.clean_data["id"], me.clean_data)
           /\ sess' = [sess EXCEPT !.of[s] = Idle, !.last = me, !.by = s]
    /\ UNCHANGED <<changelog, seq, call, classifyVars, ingestVars,
                   viewVars, cliVars, cacheVars, pinVars, runVars>>

NextSessions ==
    \/ \E s \in Sessions, data \in SessionData : Select(s, data)
    \/ \E s \in Sessions : LogOne(s)
    \/ \E s \in Sessions : UpdateRow(s)

SpecSessions == InitSessions /\ [][NextSessions]_vars

\* The session other than the one that fills the forms.
OtherSession == 2
\* The other session edits the first issue, once it exists.
OtherSelect(data) ==
    /\ IssuesOf(issues, SharedIssue) # {}
    /\ Calls < MaxSaves
    /\ Select(OtherSession, data)

NextIssues ==
    \/ \E inp \in FormInputs : SubmitNewIssue(inp)
    \/ \E i \in IssueIds(issues) : ReadIssue(i)
    \/ \E inp \in FormInputs : SubmitEditIssue(inp)
    \/ LogCreation
    \/ LogField
    \/ UpdateIssue
    \/ \E data \in SessionData : OtherSelect(data)
    \/ LogOne(OtherSession)
    \/ UpdateRow(OtherSession)

SpecIssues == InitIssues /\ [][NextIssues]_vars

(***************************************************************************)
(* Claims about the issue tracker.                                         *)
(***************************************************************************)
\* The rows of issue_changelog the call under way has written for the
\* field c.
LoggedFor(c) == {n \in call.logged : changelog[n].field_name = c}
\* The step is the last one of a call of save_issue: the call returns.
Saved == call'.n = call.n + 1
\* The step is the UPDATE of a call of save_issue that names an existing
\* issue.
SavedExisting ==
    Saved /\ call.pc = "selected" /\ DOMAIN call.existing # {}
\* The step is the INSERT of a call of save_issue without an id.
Inserted == call.pc = "idle" /\ call'.pc = "inserted"
\* The step is the last one of a call of save_issue without an id.
SavedNew == Saved /\ call.pc = "inserted"
\* The row of the issue the last call of save_issue returned.
Returned == CHOOSE x \in IssuesOf(issues, call.ret) : TRUE
\* The row of issue_changelog that records the creation of issue i.
Created(i) ==
    [issue_id |-> i, field_name |-> "status", old_value |-> "",
     new_value |-> "Created", changed_by |-> "System"]

\* C14: issue_changelog is append-only: a step, of save_issue or of
\* log_change, leaves every row it held in place and unmodified, and only
\* adds rows after them.
C14_ChangelogAppendOnly ==
    [][/\ Len(changelog') >= Len(changelog)
       /\ SubSeq(changelog', 1, Len(changelog)) = changelog]_vars
C14_Witness ==
    /\ call.form = "edit"
    /\ call.pc = "idle"
    /\ Len(changelog) >= 3
    /\ changelog[Len(changelog)].field_name = "line_name"

\* C18: a call of save_issue on an existing id has written, when it
\* returns, for every submitted field other than id whose str differs from
\* the stored value's, exactly one changelog row with the stored value as
\* old_value and the submitted one as new_value, has written nothing
\* else, and leaves the submitted values in the row of the issue.  The
\* stored value is the one the call read from the table (what another
\* session does to the row after that is the matter of C27).
C18_UpdateLogsEachChange ==
    [][SavedExisting =>
        LET d == call.data
            i == d["id"]
            old == call.existing
            before == CHOOSE x \in IssuesOf(issues, i) : TRUE
            new == CHOOSE x \in IssuesOf(issues', i) : TRUE
        IN /\ changelog' = changelog
           /\ \A c \in DOMAIN d \ {"id"} :
                LET es == LoggedFor(c)
                IN IF str(c, old[c]) # str(c, d[c])
                   THEN /\ Cardinality(es) = 1
                        /\ \A n \in es :
                            /\ changelog[n].old_value = str(c, old[c])
                            /\ changelog[n].new_value = str(c, d[c])
                   ELSE es = {}
           /\ \A n \in call.logged :
                /\ changelog[n].issue_id = i
                /\ changelog[n].field_name \in DOMAIN d \ {"id"}
           /\ Cardinality(IssuesOf(issues', i)) = 1
           /\ \A c \in DOMAIN d \ {"id"} : new[c] = d[c]
           /\ \A c \in IssueCols \ DOMAIN d : new[c] = before[c]]_vars
C18_Witness ==
    /\ call.form = "edit"
    /\ call.pc = "idle"
    /\ Len(changelog) >= 2
    /\ call.logged = {Len(changelog)}
    /\ changelog[Len(changelog)] =
        [issue_id |-> call.ret, field_name |-> "line_name", old_value |-> "A",
         new_value |-> "B", changed_by |-> "System"]
    /\ changelog[Len(changelog) - 1].field_name = "status"
    /\ Returned["line_name"] = "B"
    /\ Returned["rca_completed"] = 1

\* C19: a call of save_issue without an id inserts exactly one row, under
\* an id no issue had, then appends the creation row (status, "",
\* "Created", System) of that id to the changelog and returns the id; so
\* whenever no call is under way every issue has a creation row.
C19_InsertLogsCreation ==
    [][/\ Inserted =>
            /\ \E x \in issues' :
                /\ x \notin issues
                /\ issues' = issues \cup {x}
                /\ x["id"] \notin IssueIds(issues)
                /\ call'.issue_id = x["id"]
                /\ \A c \in DOMAIN call'.data : x[c] = call'.data[c]
            /\ Cardinality(issues') = Cardinality(issues) + 1
            /\ changelog' = changelog
       /\ SavedNew =>
            /\ issues' = issues
            /\ call'.ret = call.issue_id
            /\ changelog' = Append(changelog, Created(call'.ret))
       /\ call'.pc = "idle" =>
            \A i \in IssueIds(issues') :
                \E n \in DOMAIN changelog' : changelog'[n] = Created(i)]_vars
C19_Witness ==
    /\ call.form = "new"
    /\ call.pc = "idle"
    /\ Cardinality(issues) >= 2
    /\ call.ret = 2
    /\ changelog[Len(changelog)] = Created(2)

\* C20: a text field left blank in the edit form keeps its value: when the
\* update is saved the stored value is the one before the update, and the
\* call has written no changelog row for the field.
C20_BlankKeepsValue ==
    [][(Saved /\ call.form = "edit" /\ strip(call.inputs.line_name) = "") =>
        LET i == call.data["id"]
        IN /\ \A x \in IssuesOf(issues, i) : \A y \in IssuesOf(issues', i) :
                y["line_name"] = x["line_name"]
           /\ LoggedFor("line_name") = {}]_vars

(***************************************************************************)
(* Claims about the rows classified "None".                                *)
(***************************************************************************)
\* The Outcomes a row can be stored or written with.
StoredLabels == Labels \ {"None"}

\* C17: no row classified "None" leaves a classification step: the frame
\* process_file returns (which aoi_classify.main writes), the rows
\* assign_outcome returns for the same sheet and the rows of the defects
\* table all carry an Outcome other than "None"; in the table it is one of
\* False, Real, Fixed from previously caught and Suspect.
C17_NoneRowsDropped ==
    /\ \A n \in DOMAIN df.rows : df.rows[n]["Outcome"] \in StoredLabels
    /\ LET out == assign_outcome(CollapseLoops(file)).rows
       IN \A n \in DOMAIN out : out[n]["Outcome"] \in {"False", "Real", "Suspect"}
    /\ \A x \in DOMAIN db : x["Outcome"] \in {<<l>> : l \in StoredLabels}
C17_Witness ==
    /\ ingested
    /\ \E n \in DOMAIN collapsed : classify(collapsed[n]) = "None"
    /\ Len(df.rows) = 1
    /\ Len(df.rows) < Len(collapsed)
    /\ ing = "idle"
    /\ db # EmptyBag

(***************************************************************************)
(* The dashboard: app.py, the filter widgets and apply_filters_cached.     *)
(* Of the columns of the loaded frame the model keeps those the modelled   *)
(* filters read: Outcome, MachineName and, when the table has it, the      *)
(* datetime column EventDate.  A timestamp is a number, NaT is NaT.  The   *)
(* runs of the script in one session share st.session_state.              *)
(***************************************************************************)
\* The number of rows of the loaded frame.
MaxRows == 2
\* The number of days the timestamps of a frame fall on.
MaxTime == 1
\* The number of runs of the script in the session.
MaxRuns == 2

NaT == -1
\* start_date, end_date, start_dt and end_dt when there is no datetime
\* column or the date range is cleared: None, or the empty tuple, both falsy.
NoTime == 0
\* ref_date - dt.timedelta(days=6), line 351.
WeekBack == 6
\* A day is a number, the first day of a month of DaysPerMonth days being 1;
\* the days of the frames and of the date widgets begin a week later.
DaysPerMonth == 30
Days == (WeekBack + 1)..(WeekBack + MaxTime)
\* The times of day: 0 is dt.time(0, 0), the last one dt.time(23, 59).
TimesPerDay == 2
TimesOfDay == 0..(TimesPerDay - 1)
\* dt.datetime.combine(date, time), lines 438-439.
combine(day, time) == day * TimesPerDay + time
\* Series.dt.date, line 304: the day of a timestamp.
date(ts) == IF ts = NaT THEN NaT ELSE ts \div TimesPerDay
\* The timestamps of the rows.
Times == {combine(day, time) : day \in Days, time \in TimesOfDay}
\* The presets of the selectbox, line 315.
Presets == {"Daily", "Weekly", "Monthly", "Custom"}
\* The days the user picks in the date widgets: those of the frames and
\* the day after.
PickDays == Days \cup {WeekBack + MaxTime + 1}
\* What a date widget returns: the reference date of a preset, <<d>>, or
\* the tuple of the Custom range, of two dates, of one, or empty when the
\* range is cleared.
Picks(preset) ==
    IF preset = "Custom"
    THEN {<<>>} \cup {<<d>> : d \in PickDays}
              \cup {range \in PickDays \X PickDays : range[1] <= range[2]}
    ELSE {<<d>> : d \in PickDays}
\* Lines 331-339: start_date and end_date of the Custom range.
CustomRange(date_range) ==
    IF Len(date_range) = 2 THEN date_range
    ELSE IF Len(date_range) = 1 THEN <<date_range[1], date_range[1]>>
    ELSE <<NoTime, NoTime>>
\* Lines 348-357: start_date and end_date of a preset.
PresetRange(preset, ref_date) ==
    IF preset = "Daily" THEN <<ref_date, ref_date>>
    ELSE IF preset = "Weekly" THEN <<ref_date - WeekBack, ref_date>>
    ELSE LET first_day == ref_date - ((ref_date - 1) % DaysPerMonth)
         IN  <<first_day, first_day + DaysPerMonth - 1>>
FilterCols == <<"MachineName">>

\* The frames load_db can return, with or without a datetime column.
LoadedRows(cols) ==
    LET outcomes == {"False", "Real"}
        machines == {"M1", NaN}
    IN  IF "EventDate" \in cols
        THEN [Outcome : outcomes, MachineName : machines,
              EventDate : Times \cup {NaT}]
        ELSE [Outcome : outcomes, MachineName : machines]
FramesOf(cols) ==
    {[cols |-> cols, rows |-> rs] :
        rs \in UNION {[1..k -> LoadedRows(cols)] : k \in 0..MaxRows}}
Frames ==
    FramesOf({"Outcome", "MachineName"})
        \cup FramesOf({"Outcome", "MachineName", "EventDate"})

\* get_unique_values: the values of the column that are not missing (the
\* code sorts them into a list; only membership matters to the widgets).
get_unique_values(frame, column) ==
    IF column \in frame.cols
    THEN {frame.rows[n][column] : n \in DOMAIN frame.rows} \ {NaN}
    ELSE {}

\* df[col].isin(sel), one boolean per row.
isin(frame, col, sel) == [n \in DOMAIN frame.rows |-> frame.rows[n][col] \in sel]
\* Series.between, mutated: the left end is excluded.
between_LeftOpen(v, left, right) == v # NaT /\ left < v /\ v <= right
\* Series.between(left, right): both ends included, NaT is outside.
between(v, left, right) == v # NaT /\ left <= v /\ v <= right
\* mask &= other
And(mask, other) == [n \in DOMAIN mask |-> mask[n] /\ other[n]]

\* apply_filters_cached, lines 98-100: the loop over filters.items(), from
\* the n-th filter column on.
RECURSIVE ColumnFilters(_, _, _, _)
ColumnFilters(frame, filters, mask, n) ==
    IF n > Len(FilterCols) THEN mask
    ELSE LET col == FilterCols[n]
         IN IF col \in DOMAIN filters /\ filters[col] # {}
            THEN ColumnFilters(frame, filters,
                               And(mask, isin(frame, col, filters[col])), n + 1)
            ELSE ColumnFilters(frame, filters, mask, n + 1)

\* df[mask]: the rows whose mask is True, in order, from the n-th row on.
RECURSIVE Masked(_, _, _)
Masked(rows, mask, n) ==
    IF n > Len(rows) THEN <<>>
    ELSE (IF mask[n] THEN <<rows[n]>> ELSE <<>>) \o Masked(rows, mask, n + 1)

apply_filters_cached(frame, filters, datetime_col, start_dt, end_dt, outcome_sel) ==
    LET mask0 == [n \in DOMAIN frame.rows |-> TRUE]
        mask1 == IF outcome_sel # {}
                 THEN And(mask0, isin(frame, "Outcome", outcome_sel))
                 ELSE mask0
        mask2 == ColumnFilters(frame, filters, mask1, 1)
        mask3 == IF datetime_col # NoneValue /\ start_dt # NoTime /\ end_dt # NoTime
                 THEN And(mask2,
                          [n \in DOMAIN frame.rows |->
                              between(frame.rows[n][datetime_col], start_dt, end_dt)])
                 ELSE mask2
    IN  [cols |-> frame.cols, rows |-> Masked(frame.rows, mask3, 1)]

InitView ==
    /\ row = [c \in DispositionCols |-> 0]
    /\ outcome = "unset"
    /\ status3 = [called |-> FALSE, rows |-> <<>>]
    /\ InitIngestIdle
    /\ InitIssuesIdle
    /\ InitCliIdle
    /\ InitCacheIdle
    /\ InitPinsIdle
    /\ InitSessIdle
    /\ InitRunIdle
    /\ loaded \in Frames
    /\ session_state = [preset_mode |-> "unset"]
    /\ view = [called |-> FALSE, n |-> 0]

\* The first datetime column of the frame, lines 299-303, None without one.
DatetimeCol(frame) ==
    IF "EventDate" \in frame.cols THEN "EventDate" ELSE NoneValue

\* The values of the datetime column that are dates.
DatesOf(frame) ==
    {date(frame.rows[n][DatetimeCol(frame)]) : n \in DOMAIN frame.rows} \ {NaT}
\* Line 304: latest_date = df[datetime_col].dt.date.max().  On a column that
\* holds NaT beside dates the comparison of max() raises TypeError.
MaxRaises(frame) ==
    /\ DatesOf(frame) # {}
    /\ \E n \in DOMAIN frame.rows : frame.rows[n][DatetimeCol(frame)] = NaT
\* The latest date of the column; no date on a column without one.
latest_date(frame) ==
    IF DatesOf(frame) = {} THEN NaT
    ELSE CHOOSE d \in DatesOf(frame) : \A e \in DatesOf(frame) : e <= d

\* st.date_input(value=...) takes dates: it raises on a value, or a tuple
\* with an element, that is none (NaT, or the empty tuple line 339 stores).
IsDate(v) == v # NaT /\ v # NoTime

\* The run of the script ends by an exception before line 456.
RaisedView(outcome_sel, datetime_col, preset) ==
    [called |-> TRUE, n |-> view.n + 1, exit |-> "raised", preset |-> preset,
     outcome_sel |-> outcome_sel, filters |-> [c \in {} |-> {}],
     datetime_col |-> datetime_col, start_dt |-> NoTime, end_dt |-> NoTime,
     rows |-> <<>>]
\* The run reaches line 456 and filters the frame.
FilteredView(outcome_sel, filters, datetime_col, preset, start_dt, end_dt) ==
    [called |-> TRUE, n |-> view.n + 1, exit |-> "filtered", preset |-> preset,
     outcome_sel |-> outcome_sel, filters |-> filters,
     datetime_col |-> datetime_col, start_dt |-> start_dt, end_dt |-> end_dt,
     rows |-> apply_filters_cached(loaded, filters, datetime_col,
                                   start_dt, end_dt, outcome_sel).rows]

\* One run of the script of app.py in a session, lines 282-456: the
\* widgets return the selections of the user and the frame is filtered.
\* Without a datetime column there are no date widgets.  With one, line
\* 304 takes the latest date, lines 307-312 set the session state the
\* first time, the preset is chosen and kept (315-318), and the date
\* widget of the preset is given the value the session state holds
\* (327-328, 342-343) and returns picked, from which the range and the
\* new session state follow (331-357); the time inputs give start_t and
\* end_t (360-362) and line 437 sets start_dt and end_dt when there is a
\* range.  The widgets a run does not reach have no selection.
ApplyFilters(outcome_sel, sel_machine, preset, picked, start_t, end_t) ==
    LET datetime_col == DatetimeCol(loaded)
        filters ==
            IF get_unique_values(loaded, "MachineName") # {}
            THEN [c \in {"MachineName"} |-> sel_machine]
            ELSE [c \in {} |-> {}]
        unreached == /\ sel_machine = {} /\ picked = <<>>
                     /\ start_t = 0 /\ end_t = TimesPerDay - 1
    IN  /\ view.n < MaxRuns
        /\ IF datetime_col = NoneValue
           THEN /\ preset = "Daily" /\ picked = <<>>
                /\ start_t = 0 /\ end_t = TimesPerDay - 1
                /\ view' = FilteredView(outcome_sel, filters, datetime_col,
                                        preset, NoTime, NoTime)
                /\ session_state' = session_state
           ELSE IF MaxRaises(loaded)
           THEN /\ preset = "Daily" /\ unreached
                /\ view' = RaisedView(outcome_sel, datetime_col, preset)
                /\ session_state' = session_state
           ELSE LET latest == latest_date(loaded)
                    set == IF session_state.preset_mode = "unset"
                           THEN [preset_mode |-> "Daily", ref_date_value |-> latest,
                                 date_range_value |-> <<latest, latest>>]
                           ELSE session_state
                    kept == [set EXCEPT !.preset_mode = preset]
                    value == IF preset = "Custom" THEN kept.date_range_value
                             ELSE <<kept.ref_date_value>>
                IN  IF \E i \in DOMAIN value : ~IsDate(value[i])
                    THEN /\ unreached
                         /\ view' = RaisedView(outcome_sel, datetime_col, preset)
                         /\ session_state' = kept
                    ELSE /\ picked \in Picks(preset)
                         /\ LET range == IF preset = "Custom" THEN CustomRange(picked)
                                         ELSE PresetRange(preset, picked[1])
                                ranged == range[1] # NoTime /\ range[2] # NoTime
                            IN  /\ view' = FilteredView(outcome_sel, filters,
                                        datetime_col, preset,
                                        IF ranged THEN combine(range[1], start_t) ELSE NoTime,
                                        IF ranged THEN combine(range[2], end_t) ELSE NoTime)
                                /\ session_state' =
                                        IF preset = "Custom"
                                        THEN [kept EXCEPT !.date_range_value = range]
                                        ELSE [kept EXCEPT !.ref_date_value = picked[1]]
        /\ UNCHANGED <<loaded, classifyVars, ingestVars, issueVars, cliVars,
                       cacheVars, pinVars, sessVars, runVars>>

NextView ==
    \E outcome_sel \in SUBSET get_unique_values(loaded, "Outcome"),
       sel_machine \in SUBSET get_unique_values(loaded, "MachineName"),
       preset \in Presets, picked \in Picks("Custom"),
       start_t \in TimesOfDay, end_t \in TimesOfDay :
        ApplyFilters(outcome_sel, sel_machine, preset, picked, start_t, end_t)

SpecView == InitView /\ [][NextView]_vars

(***************************************************************************)
(* Claims about the filtered view.                                         *)
(***************************************************************************)
\* The run reached line 456 and has a filtered view.
Filtered == view.called /\ view.exit = "filtered"
\* The row is within the selected column filters and, when the date widgets
\* gave a range, within it.
InColumnsAndRange(r) ==
    /\ \A c \in DOMAIN view.filters :
        view.filters[c] = {} \/ r[c] \in view.filters[c]
    /\ (view.datetime_col # NoneValue /\ view.start_dt # NoTime) =>
        /\ r[view.datetime_col] # NaT
        /\ view.start_dt <= r[view.datetime_col]
        /\ r[view.datetime_col] <= view.end_dt
SatisfiesClaimed(r) == r["Outcome"] \in view.outcome_sel /\ InColumnsAndRange(r)
Satisfies(r) ==
    /\ view.outcome_sel = {} \/ r["Outcome"] \in view.outcome_sel
    /\ InColumnsAndRange(r)

\* C16 as claimed: the filtered view holds exactly the loaded rows whose
\* Outcome is among the selected outcomes, whose value is in the selection
\* of every column filter that has one, and whose timestamp is within
\* [start, end].
C16_ExactlySelected ==
    Filtered => view.rows = SelectSeq(loaded.rows, SatisfiesClaimed)

\* The table has a datetime column that holds no date or a missing
\* timestamp.
NoLatestDate(frame) ==
    /\ DatetimeCol(frame) # NoneValue
    /\ \/ frame.rows = <<>>
       \/ \E n \in DOMAIN frame.rows : frame.rows[n][DatetimeCol(frame)] = NaT
\* An earlier run of the session had the Custom date range cleared.
RangeCleared ==
    /\ session_state.preset_mode # "unset"
    /\ session_state.date_range_value = <<NoTime, NoTime>>

\* C16 as amended: a run of the dashboard has a filtered view unless the
\* table has a datetime column without a date or with a missing timestamp,
\* or the preset is Custom and an earlier run of the session had the date
\* range cleared, in which cases the run ends with an exception before it
\* filters; the filtered view holds exactly the loaded rows, in their
\* order, whose Outcome is among the selected outcomes when one is
\* selected, whose value is in the selection of every column filter that
\* has one, and whose timestamp is within [start, end] when the table has a
\* datetime column and the date range is not cleared.
C16_ExactlySelectedOrUnrestricted ==
    [][view'.called =>
        /\ view'.exit =
            IF \/ NoLatestDate(loaded)
               \/ /\ DatetimeCol(loaded) # NoneValue
                  /\ view'.preset = "Custom" /\ RangeCleared
            THEN "raised" ELSE "filtered"
        /\ (Filtered => view.rows = SelectSeq(loaded.rows, Satisfies))'
        /\ (Filtered => (view.start_dt = NoTime <=> view.end_dt = NoTime))']_vars
C16_Witness ==
    /\ Filtered
    /\ view.outcome_sel = {}
    /\ view.start_dt # NoTime
    /\ "MachineName" \in DOMAIN view.filters
    /\ view.filters["MachineName"] # {}
    /\ view.datetime_col = "EventDate"
    /\ view.rows # <<>>
    /\ Len(view.rows) < Len(loaded.rows)

(***************************************************************************)
(* The command-line entry points: ingest_to_db.main, aoi_classify's        *)
(* __main__ block and aoi_defect_status.main.  The input of a run is the   *)
(* sequence of the sheets of the workbooks named on the command line or    *)
(* found by the export pattern, <<>> when there is none.  A run ends by    *)
(* returning, by sys.exit(1) or by an exception nothing catches.           *)
(***************************************************************************)
\* The number of workbooks the runs of one behaviour read.
MaxPaths == 2

RequiredCols == KeyCols \cup {"ReworkStatus"}
\* The rows of a sheet that has no ReworkStatus column.
RawRowsNoStatus ==
    [SerialNumber : SerialNumbers, Ref_Id : RefIds, DefectCode : DefectCodes,
     MachineName : Machines]
\* The sheets of one row, with and without the column.
CliSheets == Files(1) \cup [1..1 -> RawRowsNoStatus]
\* The command lines: up to n workbooks.
CliPaths(n) == UNION {[1..k -> CliSheets] : k \in 0..n}

\* df.groupby(base_keys + ["ReworkStatus"]) raises KeyError when the sheet
\* lacks one of the columns.
KeyError(sheet) == ~(RequiredCols \subseteq DOMAIN sheet[1])

\* A cell read from a time-formatted cell of the workbook, a datetime.time:
\* sqlite3 has no adapter for it and raises when it binds the row.
TimeCell == "<datetime.time>"
\* (The count columns hold numbers.)
Unbindable(r) == \E c \in (DOMAIN r) \ Statuses : r[c] = TimeCell
\* The rows of the frame executemany executes before it raises: all of them
\* when every row binds.
Executed(frame) ==
    LET bad == {n \in DOMAIN frame.rows : Unbindable(frame.rows[n])}
    IN  IF bad = {} THEN Len(frame.rows)
        ELSE (CHOOSE n \in bad : \A k \in bad : n <= k) - 1

\* with sqlite3.connect(DB_PATH) as conn, left by an exception: the
\* connection rolls back to the last commit.
rollback_None(committed, working) == working
rollback(committed, working) == committed

\* upsert_df inside the with block: the table after the n rows executemany
\* executes, whether it raised, and n.
Upserted(tbl, cols, frame, n) ==
    [tbl |-> executemany(tbl, cols, [frame EXCEPT !.rows = SubSeq(frame.rows, 1, n)], 1),
     raised |-> n < Len(frame.rows),
     partial |-> n]
TryUpsert(tbl, cols, frame) == Upserted(tbl, cols, frame, Executed(frame))

RECURSIVE RowsIn(_)
\* The number of rows in the sheets of paths.
RowsIn(paths) ==
    IF paths = <<>> THEN 0 ELSE Len(Head(paths)) + RowsIn(Tail(paths))

(***************************************************************************)
(* The with block of ingest_to_db.main, line 116, and of the Data          *)
(* Ingestion page, line 67, and the loop inside it.  ensure_table and      *)
(* upsert_df end with conn.commit(), so that a run over n workbooks is     *)
(* 2n committed steps, and another connection reads the table between      *)
(* them.  process_file raises on a sheet that lacks a column; executemany  *)
(* raises on the first row it cannot bind, the rows before it executed     *)
(* and not committed.  An exception leaves the with block, whose           *)
(* connection rolls back to the last commit, and ends the run.  One run    *)
(* is under way at a time.                                                 *)
(***************************************************************************)
\* The with block is entered from entry ("main" or "page") for the paths.
\* tbl and cols are the table the run begins on.
BeginLoop(entry, paths) ==
    /\ run.pc = "idle"
    /\ paths # <<>>
    /\ run' = [read |-> run.read + RowsIn(paths), entry |-> entry, paths |-> paths,
               done |-> 0, pc |-> "loop", stage |-> "none", partial |-> 0,
               tbl |-> db, cols |-> dbcols]

\* The run has ended without an exception: nothing of its loop is kept.
Ended ==
    [run EXCEPT !.pc = "idle", !.paths = <<>>, !.done = 0, !.tbl = EmptyBag,
                !.cols = {}]

\* The run ends by the exception raised in the call stage.
Raised(stage, partial) ==
    /\ run' = [run EXCEPT !.pc = "idle", !.stage = stage, !.partial = partial]
    /\ cli' = IF run.entry = "main"
              THEN [cli EXCEPT !.exit = "raised", !.message = FALSE]
              ELSE cli

\* The loop takes the next workbook: process_file, then ensure_table and
\* its commit.
LoopEnsure ==
    /\ run.pc = "loop"
    /\ run.done < Len(run.paths)
    /\ LET sheet == run.paths[run.done + 1]
       IN  IF KeyError(sheet)
           THEN /\ Raised("process_file", 0)
                /\ UNCHANGED <<file, df, db, dbcols>>
           ELSE LET frame == process_file(sheet)
                    ens == ensure_table(db, dbcols, frame)
                IN  /\ file' = sheet
                    /\ df' = frame
                    /\ db' = ens.tbl
                    /\ dbcols' = ens.cols
                    /\ run' = [run EXCEPT !.pc = "ensured"]
                    /\ cli' = cli
    /\ UNCHANGED <<nread, history, ing, classifyVars, issueVars, viewVars,
                   cacheVars, pinVars, sessVars>>

\* upsert_df on the frame of the workbook: executemany and the commit, or
\* the exception and the rollback of the rows executed.
LoopUpsert ==
    /\ run.pc = "ensured"
    /\ LET up == TryUpsert(db, dbcols, df)
       IN  IF up.raised
           THEN /\ db' = rollback(db, up.tbl)
                /\ Raised("upsert_df", up.partial)
           ELSE /\ db' = up.tbl
                /\ run' = [run EXCEPT !.done = run.done + 1, !.pc = "loop"]
                /\ cli' = cli
    /\ UNCHANGED <<file, df, dbcols, nread, history, ing, classifyVars, issueVars,
                   viewVars, cacheVars, pinVars, sessVars>>

\* ingest_to_db.main, line 123: the loop has ended, [DONE] is printed.
EndMain ==
    /\ run.pc = "loop"
    /\ run.done = Len(run.paths)
    /\ run.entry = "main"
    /\ run' = Ended
    /\ cli' = [cli EXCEPT !.exit = "returned", !.message = TRUE]
    /\ UNCHANGED <<ingestVars, classifyVars, issueVars, viewVars,
                   cacheVars, pinVars, sessVars>>

InitCli ==
    /\ row = [c \in DispositionCols |-> 0]
    /\ outcome = "unset"
    /\ status3 = [called |-> FALSE, rows |-> <<>>]
    /\ InitIngestIdle
    /\ InitIssuesIdle
    /\ InitViewIdle
    /\ InitCliIdle
    /\ InitCacheIdle
    /\ InitPinsIdle
    /\ InitSessIdle
    /\ InitRunIdle

\* python ingest_to_db.py [paths]: without a workbook the run returns after
\* the warning, with some it prints [INFO] and enters the with block.
RunIngest(paths) ==
    /\ run.pc = "idle"
    /\ IF paths = <<>>
       THEN /\ cli' = [read |-> cli.read, script |-> "ingest_to_db", paths |-> paths,
                       exit |-> "returned", message |-> TRUE, opened |-> FALSE,
                       written |-> FALSE, rows |-> <<>>]
            /\ run' = run
       ELSE /\ BeginLoop("main", paths)
            /\ cli' = [read |-> cli.read + Len(paths), script |-> "ingest_to_db",
                       paths |-> paths, exit |-> "running", message |-> FALSE,
                       opened |-> TRUE, written |-> FALSE, rows |-> <<>>]
    /\ UNCHANGED <<ingestVars, classifyVars, issueVars, viewVars,
                   cacheVars, pinVars, sessVars>>

\* The names a sheet of a workbook can have, and the one --sheet names
\* when the argument is left out.
SheetNames == {"Defects", "Sheet1"}
DefaultSheet == "Defects"

\* A classification script, on the sheet it reads when found holds: it
\* exits with an error when it has no input; when the workbook has no sheet
\* of the name asked for, load_data prints the error and raises again; the
\* exception of the groupby ends it when a column is missing; and it writes
\* the frame out otherwise.
RunScript(script, paths, found, out) ==
    LET ok == paths # <<>> /\ found /\ ~KeyError(paths[1])
    IN  /\ run.pc = "idle"
        /\ cli.read + Len(paths) <= MaxPaths
        /\ cli' = [read |-> cli.read + Len(paths), script |-> script, paths |-> paths,
                   exit |-> IF paths = <<>> THEN "exit1"
                            ELSE IF ok THEN "returned" ELSE "raised",
                   message |-> paths = <<>> \/ ~found \/ ok,
                   opened |-> FALSE,
                   written |-> ok,
                   rows |-> IF ok THEN out ELSE <<>>]
        /\ UNCHANGED <<ingestVars, classifyVars, issueVars, viewVars,
                       cacheVars, pinVars, sessVars, runVars>>

\* python aoi_classify.py [src]: the first sheet of the workbook is read.
RunClassify(paths) ==
    RunScript("aoi_classify", paths, TRUE,
              IF paths # <<>> /\ ~KeyError(paths[1])
              THEN process_file(paths[1]).rows ELSE <<>>)

\* python aoi_defect_status.py [input] [--sheet asked], on a workbook whose
\* sheet has the name name.
RunDefectStatus(paths, name, asked) ==
    RunScript("aoi_defect_status", paths, name = asked,
              IF paths # <<>> /\ ~KeyError(paths[1])
              THEN assign_outcome(CollapseLoops(paths[1])).rows ELSE <<>>)

NextCli ==
    \/ \E paths \in CliPaths(MaxPaths - cli.read) : RunIngest(paths)
    \/ LoopEnsure
    \/ LoopUpsert
    \/ EndMain
    \/ \E paths \in CliPaths(1) : RunClassify(paths)
    \/ \E paths \in CliPaths(1) : \E name \in SheetNames :
            RunDefectStatus(paths, name, DefaultSheet)

SpecCli == InitCli /\ [][NextCli]_vars

(***************************************************************************)
(* Claims about the command line.                                          *)
(***************************************************************************)
\* C15: a run without input prints a message and has no side effect:
\* ingest_to_db.main returns without opening or changing the database and
\* the classification scripts exit with an error without writing output;
\* a run on a workbook that lacks an expected column likewise ends with a
\* message, not with an unhandled exception.  (Checked on the step that
\* ends the run.)
C15_MissingInputShortCircuits ==
    [][(cli' # cli /\ cli'.exit # "running") =>
        /\ cli'.paths = <<>> =>
            /\ cli'.message /\ ~cli'.opened /\ ~cli'.written
            /\ db' = db /\ dbcols' = dbcols
            /\ cli'.exit = IF cli'.script = "ingest_to_db" THEN "returned" ELSE "exit1"
        /\ (\E n \in DOMAIN cli'.paths : KeyError(cli'.paths[n])) =>
            /\ cli'.message
            /\ cli'.exit # "raised"]_vars

(***************************************************************************)
(* The cached loaders and the Data Ingestion page: app.py load_db,          *)
(* pages/action_tracker.py load_defects, pages/data_ingestion.py.  The      *)
(* server process keeps one cache entry for load_db(DB_PATH), one for the   *)
(* load_defects() of the script of the Action Tracker page and one for the  *)
(* load_defects() of the module pages.action_tracker, the cache being keyed *)
(* by the module and name of the function; none has a ttl.  The frame a     *)
(* loader returns is modelled by the columns and rows of the defects table  *)
(* it read.                                                                 *)
(***************************************************************************)
\* The number of loader calls in one behaviour.
MaxLoads == 2

\* The workbooks the page can be told to ingest: sequences of up to n
\* sheets of one row.
PagePaths(n) == UNION {[1..k -> Files(1)] : k \in 1..n}

\* A function under st.cache_data without arguments that change: the entry
\* is returned when there is one, and the table is read and kept otherwise.
cache_data(entry, cols, tbl) ==
    IF entry.hit THEN entry ELSE [hit |-> TRUE, cols |-> cols, tbl |-> tbl]

InitCache ==
    /\ row = [c \in DispositionCols |-> 0]
    /\ outcome = "unset"
    /\ status3 = [called |-> FALSE, rows |-> <<>>]
    /\ InitIngestIdle
    /\ InitIssuesIdle
    /\ InitViewIdle
    /\ InitCliIdle
    /\ InitCacheIdle
    /\ InitPinsIdle
    /\ InitSessIdle
    /\ InitRunIdle

\* A cached loader is called, the table existing.
Load(loader) ==
    LET entry == cache_data(cache[loader], dbcols, db)
    IN  /\ dbcols # {}
        /\ got.n < MaxLoads
        /\ cache' = [cache EXCEPT ![loader] = entry]
        /\ got' = [n |-> got.n + 1, loader |-> loader,
                   cols |-> entry.cols, tbl |-> entry.tbl]
        /\ UNCHANGED <<classifyVars, ingestVars, issueVars, viewVars, cliVars,
                       pinVars, sessVars, runVars>>

\* app.py, line 244: df = load_db(DB_PATH)
LoadDb == Load("load_db")
\* pages/action_tracker.py, line 335: defects_df = load_defects()
LoadDefects == Load("load_defects")

\* The Run Ingestion button of the Data Ingestion page: the with block of
\* line 67 is entered for the selected files.
RunIngestionPage(paths) ==
    /\ BeginLoop("page", paths)
    /\ UNCHANGED <<ingestVars, classifyVars, issueVars, viewVars, cliVars,
                   cacheVars, pinVars, sessVars>>

\* data_ingestion.py, line 76: the loop has ended and the with block is
\* left.
EndPage ==
    /\ run.pc = "loop"
    /\ run.done = Len(run.paths)
    /\ run.entry = "page"
    /\ run' = [run EXCEPT !.pc = "import"]
    /\ UNCHANGED <<ingestVars, classifyVars, issueVars, viewVars, cliVars,
                   cacheVars, pinVars, sessVars>>

\* The ways the script of pages/action_tracker.py ends when the import of
\* line 79 runs it: to its end; by an exception before it calls
\* load_defects (st.set_page_config at line 293, called a second time in
\* the run of the page); or by one after the call (line 338 on a table
\* without EventDate, a column the model does not keep).
ImportEnds == {"ok", "before", "after"}

\* data_ingestion.py, lines 78-81: from pages.action_tracker import
\* load_defects.  A module imported before is in sys.modules and is not run
\* again.  Otherwise the import runs the script of the Action Tracker page
\* as the module pages.action_tracker: its load_defects() (lines 320 and
\* 335) reads and keeps the table under the entry of
\* pages.action_tracker.load_defects, which is not the entry of the
\* load_defects the page's own script defines and calls.  An exception of
\* the script other than ModuleNotFoundError ends the run of the Data
\* Ingestion page before line 82 and leaves the module out of sys.modules.
ImportTracker(how) ==
    /\ run.pc = "import"
    /\ IF cache.imported
       THEN /\ how = "ok"
            /\ run' = [run EXCEPT !.pc = "clear"]
            /\ cache' = cache
       ELSE LET entry == cache_data(cache["imported_load_defects"], dbcols, db)
            IN  /\ cache' = [cache EXCEPT
                                !["imported_load_defects"] =
                                    IF how = "before" THEN @ ELSE entry,
                                !["imported"] = (how = "ok")]
                /\ run' = [run EXCEPT !.pc = IF how = "ok" THEN "clear" ELSE "idle",
                                      !.stage = IF how = "ok" THEN "none" ELSE "import"]
    /\ UNCHANGED <<got, ingestVars, classifyVars, issueVars, viewVars, cliVars,
                   pinVars, sessVars>>

\* data_ingestion.py, line 82: load_defects.clear() clears the entries of
\* the imported function.
ClearDefects ==
    /\ run.pc = "clear"
    /\ cache' = [cache EXCEPT !["imported_load_defects"] = NoEntry]
    /\ run' = Ended
    /\ UNCHANGED <<got, ingestVars, classifyVars, issueVars, viewVars, cliVars,
                   pinVars, sessVars>>

NextCache ==
    \/ LoadDb
    \/ LoadDefects
    \/ \E paths \in PagePaths(MaxIngested - run.read) : RunIngestionPage(paths)
    \/ LoopEnsure
    \/ LoopUpsert
    \/ EndPage
    \/ \E how \in ImportEnds : ImportTracker(how)
    \/ ClearDefects

SpecCache == InitCache /\ [][NextCache]_vars

(***************************************************************************)
(* Claims about the caches.                                                *)
(***************************************************************************)
\* A run of the page has ended with every workbook ingested and no other
\* is under way.
IngestionEnded ==
    /\ run.pc = "idle"
    /\ run.entry = "page"
    /\ run.stage \notin {"process_file", "upsert_df"}

\* C21: a cached loader called after an ingestion run of the Data Ingestion
\* page returns the defects table as the ingestion left it: every call of
\* load_db or load_defects returns the columns and rows the table has then.
C21_LoadersSeeIngestion ==
    [][(got'.n = got.n + 1 /\ IngestionEnded) =>
            (got'.cols = dbcols /\ got'.tbl = db)]_vars

(***************************************************************************)
(* Pin-level deduplication: pages/action_tracker.py deduplicate_pins (and   *)
(* the same steps in app.py compute_chart_data, lines 118-129).  A Ref_Id   *)
(* is the sequence of its characters, a missing one is <<NaN>>; EventDate   *)
(* is a number of seconds, NaT when missing.                                *)
(***************************************************************************)
\* The number of rows of the frame handed to deduplicate_pins.
MaxPinRows == 3

SecondsPerMinute == 60
PinNaN == <<NaN>>
PinRefs == {<<"R", "1">>, <<"R", "1", ".", "1">>, <<"R", "2">>, PinNaN}
PinCodes == {"D1", "D2"}
PinDates == {0, 30, 60}

PinRows(cols) ==
    IF "EventDate" \in cols
    THEN [SerialNumber : SerialNumbers, Ref_Id : PinRefs, DefectCode : PinCodes,
          EventDate : PinDates]
    ELSE [SerialNumber : SerialNumbers, Ref_Id : PinRefs, DefectCode : PinCodes]
PinFramesOf(cols) ==
    {[cols |-> cols, rows |-> rs] :
        rs \in UNION {[1..k -> PinRows(cols)] : k \in 0..MaxPinRows}}
PinFrames ==
    PinFramesOf({"SerialNumber", "Ref_Id", "DefectCode"})
        \cup PinFramesOf({"SerialNumber", "Ref_Id", "DefectCode", "EventDate"})

\* s.split(".")[0]: the characters before the first dot.
RECURSIVE split0(_)
split0(s) ==
    IF s = <<>> THEN <<>>
    ELSE IF Head(s) = "." THEN <<>>
    ELSE <<Head(s)>> \o split0(Tail(s))

\* RF_Base, mutated: the whole Ref_Id.
RF_Base_Whole(ref) == ref
\* d["Ref_Id"].str.split(".").str[0]: a missing Ref_Id stays missing.
RF_Base(ref) == IF ref = PinNaN THEN PinNaN ELSE split0(ref)

\* pd.to_datetime(...).dt.floor("T"): the start of the minute, NaT for NaT.
floorT(t) == IF t = NaT THEN NaT ELSE (t \div SecondsPerMinute) * SecondsPerMinute

\* The n-th row agrees on cols with no row before it (two missing values
\* agree).
IsFirstOfGroup(frame, cols, n) ==
    \A m \in 1..(n - 1) : \E c \in cols : frame.rows[m][c] # frame.rows[n][c]
RECURSIVE KeepFirst(_, _, _)
KeepFirst(frame, cols, n) ==
    IF n > Len(frame.rows) THEN <<>>
    ELSE (IF IsFirstOfGroup(frame, cols, n) THEN <<frame.rows[n]>> ELSE <<>>)
         \o KeepFirst(frame, cols, n + 1)
\* d.drop_duplicates(cols): the first row of every group, in order.
drop_duplicates(frame, cols) ==
    [cols |-> frame.cols, rows |-> KeepFirst(frame, cols, 1)]

\* d[col] = values: the column is added or replaced.
WithColumn(frame, col, values) ==
    [cols |-> frame.cols \cup {col},
     rows |-> [n \in DOMAIN frame.rows |->
                [c \in frame.cols \cup {col} |->
                    IF c = col THEN values[n] ELSE frame.rows[n][c]]]]

deduplicate_pins(frame) ==
    IF frame.rows = <<>> \/ "Ref_Id" \notin frame.cols THEN frame
    ELSE LET d1 == WithColumn(frame, "RF_Base",
                      [n \in DOMAIN frame.rows |-> RF_Base(frame.rows[n]["Ref_Id"])])
             cols1 == {"SerialNumber", "RF_Base"}
                        \cup (IF "DefectCode" \in d1.cols THEN {"DefectCode"} ELSE {})
             d2 == IF "EventDate" \in d1.cols
                   THEN WithColumn(d1, "_event_min",
                          [n \in DOMAIN d1.rows |-> floorT(d1.rows[n]["EventDate"])])
                   ELSE d1
             cols2 == IF "EventDate" \in d1.cols THEN cols1 \cup {"_event_min"}
                      ELSE cols1
         IN  drop_duplicates(d2, cols2)

InitPins ==
    /\ row = [c \in DispositionCols |-> 0]
    /\ outcome = "unset"
    /\ status3 = [called |-> FALSE, rows |-> <<>>]
    /\ InitIngestIdle
    /\ InitIssuesIdle
    /\ InitViewIdle
    /\ InitCliIdle
    /\ InitCacheIdle
    /\ InitSessIdle
    /\ InitRunIdle
    /\ pins \in {[called |-> FALSE, input |-> f] : f \in PinFrames}

\* The page deduplicates the filtered defects, lines 388-389, and would get
\* pins.twice if it deduplicated the result again.
DeduplicatePins ==
    /\ ~pins.called
    /\ pins' = [called |-> TRUE, input |-> pins.input,
                out |-> deduplicate_pins(pins.input),
                twice |-> deduplicate_pins(deduplicate_pins(pins.input))]
    /\ UNCHANGED <<classifyVars, ingestVars, issueVars, viewVars, cliVars,
                   cacheVars, sessVars, runVars>>

NextPins == DeduplicatePins

SpecPins == InitPins /\ [][NextPins]_vars

(***************************************************************************)
(* Claims about the deduplication.                                         *)
(***************************************************************************)
\* The combination the deduplication is about: SerialNumber, the text of
\* Ref_Id before the first dot, DefectCode and the minute of the event.
PinKey(r) ==
    <<r["SerialNumber"],
      IF r["Ref_Id"] = PinNaN THEN PinNaN ELSE split0(r["Ref_Id"]),
      r["DefectCode"],
      IF "EventDate" \in DOMAIN r /\ r["EventDate"] # NaT
      THEN r["EventDate"] \div SecondsPerMinute ELSE NaT>>

\* C22: after the deduplication no two rows have the same SerialNumber,
\* base Ref_Id, DefectCode and event minute, every combination of the
\* input has exactly one row left, that row is a row of the input, and
\* deduplicating the result again changes nothing.
C22_OneRowPerPinGroup ==
    pins.called =>
        LET in == pins.input.rows
            out == pins.out.rows
        IN  /\ \A m, n \in DOMAIN out : PinKey(out[m]) = PinKey(out[n]) => m = n
            /\ \A n \in DOMAIN in :
                Cardinality({m \in DOMAIN out : PinKey(out[m]) = PinKey(in[n])}) = 1
            /\ \A m \in DOMAIN out : \E n \in DOMAIN in :
                \A c \in pins.input.cols : out[m][c] = in[n][c]
            /\ pins.twice = pins.out
C22_Witness ==
    /\ pins.called
    /\ "EventDate" \in pins.input.cols
    /\ Len(pins.input.rows) = 3
    /\ Len(pins.out.rows) = 2
    /\ \E m, n \in DOMAIN pins.input.rows :
        /\ m < n
        /\ pins.input.rows[m]["Ref_Id"] = <<"R", "1", ".", "1">>
        /\ pins.input.rows[n]["Ref_Id"] = <<"R", "1">>
        /\ pins.input.rows[m]["EventDate"] = 0
        /\ pins.input.rows[n]["EventDate"] = 30
        /\ PinKey(pins.input.rows[m]) = PinKey(pins.input.rows[n])

(***************************************************************************)
(* Claims about the stored rows.                                           *)
(***************************************************************************)
\* The counts stored in a row of the defects table, as classify reads them.
StoredTriple(x) == [d \in DispositionCols |-> x[d][1]]

\* C23: after any ingestions, the Outcome of every row of the defects
\* table is classify of the False call, Overridden and Reworkable counts
\* stored in that row.
C23_OutcomeMatchesStoredCounts ==
    \A x \in DOMAIN db :
        /\ \A d \in DispositionCols : x[d] # NULL
        /\ x["Outcome"] = <<classify(StoredTriple(x))>>
C23_Witness ==
    /\ ing = "idle"
    /\ BagCardinality(db) >= 2
    /\ \E x \in DOMAIN db : x["Outcome"] = <<"Real">> /\ CompleteKey(x)
    /\ \E x \in DOMAIN db : x["Outcome"] = <<"False">>

\* The key cells of a row of the table, and those the frame's row r is
\* bound to by upsert_df.
StoredKey(x) == [k \in KeyCols |-> x[k]]
BoundKey(r) == [k \in KeyCols |-> ToSql(k, r[k])]
KeyInFrame(x, frame) ==
    \E n \in DOMAIN frame.rows : BoundKey(frame.rows[n]) = StoredKey(x)

\* A row of the table under the columns cols: NULL in a column it lacked.
Widened(x, cols) == [c \in cols |-> IF c \in DOMAIN x THEN x[c] ELSE NULL]

\* C24: an ingestion changes only rows whose key occurs in the file: every
\* row of the defects table whose key is not the key of a row of the
\* file's frame is in the table afterwards, as often as before, with the
\* same value in every column it had (and NULL in a column the ingestion
\* added).
C24_OtherRowsUnchanged ==
    [][\A x \in DOMAIN db :
          ~KeyInFrame(x, df') =>
              LET y == Widened(x, dbcols')
              IN  /\ y \in DOMAIN db'
                  /\ db'[y] = db[x]
                  /\ \A c \in DOMAIN x : y[c] = x[c]]_vars
\* The last file added the column Other and replaced or added rows, and a
\* row ingested before it, whose key the file lacks, is in the table.
C24_Witness ==
    /\ ing = "idle"
    /\ nread = MaxIngested
    /\ Len(file) = 2
    /\ "Other" \in df.cols
    /\ Len(df.rows) >= 1
    /\ \E x \in DOMAIN db :
         /\ ~KeyInFrame(x, df)
         /\ CompleteKey(x)
         /\ x["Other"] = NULL

(***************************************************************************)
(* A run of the ingestion loop over several workbooks, one of which may    *)
(* fail: python ingest_to_db.py paths, and the Run Ingestion button of     *)
(* pages/data_ingestion.py, whose with block and loop are the same.        *)
(***************************************************************************)
\* The number of rows in the workbooks the runs of one behaviour read.
MaxBatchRows == 3

\* The sheets: one or two rows, a MachineName cell being a string or a
\* time; and the sheet without the ReworkStatus column.
BatchStatuses == {"False call", "Overridden"}
BatchRows ==
    [SerialNumber : SerialNumbers, Ref_Id : RefIds, DefectCode : DefectCodes,
     ReworkStatus : BatchStatuses, MachineName : {"M1", TimeCell}]
BatchRowsNoStatus ==
    [SerialNumber : SerialNumbers, Ref_Id : {"C1"}, DefectCode : DefectCodes,
     MachineName : {"M1"}]
BatchSheets ==
    UNION {[1..k -> BatchRows] : k \in 1..2} \cup [1..1 -> BatchRowsNoStatus]
\* The workbooks of up to n rows.
SheetsUpTo(n) == {s \in BatchSheets : Len(s) <= n}
InitBatch ==
    /\ row = [c \in DispositionCols |-> 0]
    /\ outcome = "unset"
    /\ status3 = [called |-> FALSE, rows |-> <<>>]
    /\ InitIngestIdle
    /\ InitIssuesIdle
    /\ InitViewIdle
    /\ InitCliIdle
    /\ InitCacheIdle
    /\ InitPinsIdle
    /\ InitSessIdle
    /\ InitRunIdle

\* A run, of python ingest_to_db.py or of the Run Ingestion button, over
\* one, two or three workbooks.
RunOnOne(n) ==
    \E s1 \in SheetsUpTo(n) : RunIngest(<<s1>>) \/ RunIngestionPage(<<s1>>)
RunOnTwo(n) ==
    \E s1 \in SheetsUpTo(n) : \E s2 \in SheetsUpTo(n - Len(s1)) :
        RunIngest(<<s1, s2>>) \/ RunIngestionPage(<<s1, s2>>)
RunOnThree(n) ==
    \E s1 \in SheetsUpTo(n) : \E s2 \in SheetsUpTo(n - Len(s1)) :
        \E s3 \in SheetsUpTo(n - Len(s1) - Len(s2)) :
            RunIngest(<<s1, s2, s3>>) \/ RunIngestionPage(<<s1, s2, s3>>)

NextBatch ==
    \/ RunOnOne(MaxBatchRows - run.read)
    \/ RunOnTwo(MaxBatchRows - run.read)
    \/ RunOnThree(MaxBatchRows - run.read)
    \/ LoopEnsure
    \/ LoopUpsert
    \/ EndMain
    \/ EndPage
    \/ \E how \in ImportEnds : ImportTracker(how)
    \/ ClearDefects

SpecBatch == InitBatch /\ [][NextBatch]_vars

(***************************************************************************)
(* Claims about a failing run.                                             *)
(***************************************************************************)
\* The step ends the run by an exception of process_file or of upsert_df on
\* the workbook run.done + 1.
Fails ==
    /\ run.pc \in {"loop", "ensured"}
    /\ run'.pc = "idle"
    /\ run'.stage \in {"process_file", "upsert_df"}

\* C25: in a run over several workbooks that fails on workbook k, in
\* process_file or in upsert_df, the defects table afterwards holds what
\* ingesting the workbooks 1..k-1 alone leaves in it (under the columns
\* the table has by then) and nothing else: no row executed for workbook k
\* stays.
C25_FailedFileLeavesNoRows ==
    [][Fails =>
          LET t == Replay(SubSeq(run.paths, 1, run.done), run.tbl, run.cols)
          IN  /\ BagCardinality(db') = BagCardinality(t)
              /\ \A x \in DOMAIN t :
                    LET y == Widened(x, dbcols')
                    IN  y \in DOMAIN db' /\ db'[y] = t[x]]_vars
\* The second workbook of a run failed in upsert_df after one row was
\* executed, and that row had replaced a row the first workbook stored.
C25_Witness ==
    /\ run.pc = "idle"
    /\ run.stage = "upsert_df"
    /\ run.done = 1
    /\ run.partial = 1
    /\ \E x \in DOMAIN db :
         /\ CompleteKey(x)
         /\ BoundKey(df.rows[1]) = StoredKey(x)
         /\ x["Outcome"] # <<df.rows[1]["Outcome"]>>

(***************************************************************************)
(* save_issue called with any dictionary, also one whose id is the id of   *)
(* no issue.                                                               *)
(***************************************************************************)
\* The dictionaries: with or without an id, the id being 0 (falsy), the id
\* of an issue or an id no issue has.
CallIds == 0..(MaxSaves + 1)
CallData ==
    [line_name : TextInputs, rca_completed : {0, 1}]
        \cup [id : CallIds, line_name : TextInputs, rca_completed : {0, 1}]

CallSaveIssue(data) ==
    /\ call.pc = "idle"
    /\ BeginSave("direct", data, data)

NextSaveIssue ==
    \/ \E data \in CallData : CallSaveIssue(data)
    \/ LogCreation
    \/ LogField
    \/ UpdateIssue

SpecSaveIssue == InitIssues /\ [][NextSaveIssue]_vars

\* C26: after any calls of save_issue, and between the commits of one, the
\* issue_id of every row of issue_changelog is the id of a row of issues,
\* also after a call whose id matches no issue.
C26_ChangelogRefersToIssues ==
    \A n \in DOMAIN changelog : changelog[n].issue_id \in IssueIds(issues)
\* The last call named an id that no issue has, with other values than the
\* defaults of a row, and the changelog has rows.
C26_Witness ==
    /\ call.form = "direct"
    /\ call.pc = "idle"
    /\ call.n > 0
    /\ "id" \in DOMAIN call.data
    /\ call.ret = call.data["id"]
    /\ call.data["id"] # 0
    /\ call.data["id"] \notin IssueIds(issues)
    /\ call.data["line_name"] = "A"
    /\ call.data["rca_completed"] = 1
    /\ issues # {}
    /\ changelog # <<>>

(***************************************************************************)
(* Claims about two sessions.                                              *)
(***************************************************************************)
\* The stored row of the issue both sessions edit.
Stored(tbl) == existing_dict(tbl, SharedIssue)
\* The last row of issue_changelog about the field key of the issue.
LastEntry(log, key) ==
    LET es == EntriesOf(log, SharedIssue, key)
    IN  log[CHOOSE n \in es : \A j \in es : j <= n]
\* The step is the UPDATE of session s.
Updates(s) == sess.of[s].pc = "selected" /\ sess'.of[s].pc = "idle"
\* No call of save_issue is under way.
AllIdle == \A s \in Sessions : sess.of[s].pc = "idle"
\* The stored value of every logged field is the new_value of its last row
\* of issue_changelog.
FinalIsLastLogged ==
    \A n \in DOMAIN FormFields :
        EntriesOf(changelog, SharedIssue, FormFields[n]) # {} =>
            str(FormFields[n], Stored(issues)[FormFields[n]])
                = LastEntry(changelog, FormFields[n]).new_value

\* C27, as stated: with the steps of two sessions' updates of one issue
\* interleaved, every row a call wrote to issue_changelog has as old_value
\* the value its UPDATE overwrote in issues, and when the calls have ended
\* the stored value of a field is the new_value of the field's last row.
C27_LogMatchesOverwritten ==
    [][/\ \A s \in Sessions : Updates(s) =>
             \A n \in sess.of[s].logged :
                 changelog[n].old_value
                     = str(changelog[n].field_name, Stored(issues)[changelog[n].field_name])
       /\ AllIdle' => FinalIsLastLogged']_vars

\* C27, amended: every row a call wrote to issue_changelog has as
\* old_value the value the call's own SELECT read and as new_value the
\* value the call was given; the UPDATE stores the values the call was
\* given, so that when the calls have ended the stored row holds the
\* values of the call whose UPDATE ran last; and a call whose SELECT still
\* agrees with the stored row at its UPDATE logged the values it overwrote.
C27_LogMatchesRead ==
    [][/\ \A s \in Sessions : Updates(s) =>
             LET me == sess.of[s]
             IN  /\ \A n \in me.logged :
                       /\ changelog[n].issue_id = SharedIssue
                       /\ changelog[n].old_value
                            = str(changelog[n].field_name, me.existing[changelog[n].field_name])
                       /\ changelog[n].new_value
                            = str(changelog[n].field_name, me.clean_data[changelog[n].field_name])
                 /\ \A k \in DOMAIN FormFields :
                       Stored(issues')[FormFields[k]] = me.clean_data[FormFields[k]]
                 /\ me.existing = Stored(issues) =>
                       \A n \in me.logged :
                           changelog[n].old_value
                               = str(changelog[n].field_name,
                                     Stored(issues)[changelog[n].field_name])
       /\ (AllIdle' /\ sess'.by # 0) =>
             \A k \in DOMAIN FormFields :
                 Stored(issues')[FormFields[k]] = sess'.last.clean_data[FormFields[k]]]_vars
\* Two calls have interleaved and ended: the call whose UPDATE ran last
\* had read the row before the other call's UPDATE, and the stored value
\* of line_name is not the new_value of the field's last row.
C27_Witness ==
    /\ AllIdle
    /\ sess.by # 0
    /\ sess.last.logged # {}
    /\ EntriesOf(changelog, SharedIssue, "line_name") # {}
    /\ str("line_name", Stored(issues)["line_name"])
         # LastEntry(changelog, "line_name").new_value

=============================================================================
